---- MODULE Spec2Model ----
(***************************************************************************)
(* Verification model of the ero-blockwheel-kv core:                       *)
(*   - core/merger.rs   : ItersMerger (K-way ordered merge, version aware) *)
(*   - core/manager.rs  : the Manager event loop (busyloop)                *)
(* Collaborators whose code is not part of the sources at hand (Butcher,   *)
(* SearchTree, BinMerger, the task runner) are modelled from their stated  *)
(* interfaces.                                                             *)
(***************************************************************************)
EXTENDS Integers, Sequences, FiniteSets, Bags, TLC

\* ------------------------------------------------------------------ bounds
\* number of input streams handed to one ItersMerger
MaxIters == 3
\* keys are 1..MaxKey, ordered as integers (stands for the byte-lex order)
MaxKey == 2
\* versions carried by merger input items are 1..MaxVersion
MaxVersion == 2
\* total number of items over all input streams of one merger
MaxItems == 3
\* keys of the store are 1..MaxStoreKey
MaxStoreKey == 1
\* number of clients holding a Pid
NumClients == 2
\* client calls per run
MaxOps == 3
\* one writer and its readers: client calls per run, and writes among them
MaxKVOps == 4
MaxKVWrites == 2
\* trees found on the wheels at start, and the keys they hold
MaxTrees == 3
MaxTreeKey == 2
\* client calls in a run that ends with the Manager loop ending
MaxStopOps == 2
\* client calls in a run of a loaded store that is flushed
MaxFlushOps == 2
\* keys of the cache a cache-bootstrap tree iterates over are 1..MaxCacheKey
MaxCacheKey == 3

Keys == 1..MaxKey
Versions == 1..MaxVersion
StoreKeys == 1..MaxStoreKey
Clients == 1..NumClients

VARIABLES
    \* ---- ItersMerger (merger.rs)
    iters,             \* ItersMerger.iters : Seq of KeyValuesIter
    advance_head_idx,  \* ItersMerger.advance_head_idx (0 = None, else 1-based index)
    merger_pc,         \* "idle" (no merger), "ready", "panicked" (assert at entry failed)
    merger_last,       \* outcome of the last next_with_deprecated call
    merger_out,        \* items returned so far by Ok(Some(..)), in order
    merger_inputs,     \* the streams the merger was created with (never changes)
    \* ---- the cache iteration task (search_tree/task/iter_cache.rs)
    iter_cache,        \* Args.cache: the MemCache of the tree, key -> cell
    iter_range,        \* IterRequestData.range
    iter_items,        \* JobDone.items: what is left to drain into the channel
    iter_items_tx,     \* what went through iter_items_tx.items_tx, in order
    iter_items_rx,     \* the receiving end of that channel: "alive" | "dropped"
    iter_repaid,       \* senders handed back through repay_iter_items_tx
    iter_pc,           \* "idle" (no task), "spawn", "send", "done"
    iter_result,       \* "Pending", "Ok" (Ok(Done)), "ThreadPoolGone"
    \* ---- the block stream of the wheels, read by fn load
    block_refs_rx,     \* iter_blocks.block_refs_rx: every item the wheels send, in order
    blocks_total,      \* load's blocks_total: the blocks received so far
    \* ---- Manager (manager.rs, busyloop locals)
    pc,                \* "load", "scan" (fn load), "startup", "loop" (fn busyloop),
                       \* "panicked" (unwrap / assert failed), "returned", "failed"
    current_mode,      \* "Regular" | "Flushing"
    search_trees,      \* Set<search_tree::Pid>: the refs of the trees in the set
    search_tree_refs,  \* BinMerger<SearchTreeRef>: queued refs, oldest first
    info_requests,     \* Set<InfoRequest>, by request ref
    lookup_requests,   \* Set<LookupRequest>, by request ref
    lookup_range_requests, \* Set<LookupRangeRequest>, by request ref
    flush_requests,    \* Set<FlushRequest>, by request ref
    tasks,             \* FuturesUnordered of foreground tasks
    tasks_count,
    bg_tasks,          \* spawned background tasks
    bg_tasks_count,
    merge_search_trees_tasks_count,
    \* ---- channels
    request_queue,     \* requests sent by clients, not yet received by the Manager
    flush_cache_chan,  \* ButcherFlush sent by the butcher, not yet received
    \* ---- collaborators
    trees,             \* every SearchTree ever created, by ref: contents and mode
                       \* (history: flushed, origin, late_for)
    memcache,          \* the butcher's current buffer: key -> cell
    version_counter,   \* the version provider
    clients,           \* per client: the call in progress and its last result
    \* ---- history
    ops_left,          \* client calls still allowed in this run
    write_log,         \* per version handed out: the key and cell written with it
    acked,             \* per key: newest version acknowledged to a client
    last_seen,         \* per key: version of the most recently delivered lookup reply
    max_seen,          \* per key: newest version any delivered lookup reply carried
    flush_accepted,    \* FlushAll requests received by the Manager
    flushed_sent       \* Flushed replies sent by the Manager

merger_vars == <<iters, advance_head_idx, merger_pc, merger_last, merger_out, merger_inputs>>

loop_vars == <<pc, current_mode, search_trees, search_tree_refs, info_requests,
               lookup_requests, lookup_range_requests, flush_requests, tasks,
               tasks_count, bg_tasks, bg_tasks_count, merge_search_trees_tasks_count>>

loop_vars_but_tasks ==
    <<pc, current_mode, search_trees, search_tree_refs, info_requests, lookup_requests,
      lookup_range_requests, flush_requests, tasks_count, bg_tasks, bg_tasks_count,
      merge_search_trees_tasks_count>>

env_vars == <<request_queue, flush_cache_chan, trees, memcache, version_counter, clients>>

hist_vars == <<ops_left, write_log, acked, last_seen, max_seen, flush_accepted, flushed_sent>>

manager_vars == <<loop_vars, env_vars, hist_vars>>

load_vars == <<block_refs_rx, blocks_total>>

iter_cache_vars == <<iter_cache, iter_range, iter_items, iter_items_tx, iter_items_rx,
                     iter_repaid, iter_pc, iter_result>>

vars == <<merger_vars, load_vars, manager_vars, iter_cache_vars>>

\* ================================================================ merger.rs

\* KeyValueRef messages of a stream
NoItem == [key |-> 0, version |-> 0, src |-> 0]
MsgItem(k, v, s) == [type |-> "Item", item |-> [key |-> k, version |-> v, src |-> s]]
MsgBlockFinish == [type |-> "BlockFinish", item |-> NoItem]
MsgNoMore == [type |-> "NoMore", item |-> NoItem]

\* KeyValuesIter::new
KeyValuesIterNew(rx) ==
    [key_values_rx |-> rx, iter_state |-> "NotReady", front |-> NoItem, advance_next_idx |-> 0]

\* mutant: the last element is dropped, whichever index is given
SwapRemoveLast(v, idx) == SubSeq(v, 1, Len(v) - 1)

\* Vec::swap_remove(idx): the last element takes the place of the removed one
SwapRemove(v, idx) ==
    IF idx = Len(v)
    THEN SubSeq(v, 1, Len(v) - 1)
    ELSE [i \in 1..(Len(v) - 1) |-> IF i = idx THEN v[Len(v)] ELSE v[i]]

\* mutant: a channel closed by its peer is taken for the end of the stream
RECURSIVE RecvClosedAsNoMore(_)
RecvClosedAsNoMore(rx) ==
    IF rx = <<>>
    THEN [type |-> "NoMore", item |-> NoItem, rest |-> <<>>]
    ELSE IF Head(rx).type = "BlockFinish"
         THEN RecvClosedAsNoMore(Tail(rx))
         ELSE [type |-> Head(rx).type, item |-> Head(rx).item, rest |-> Tail(rx)]

\* the inner `loop` of the NotReady branch: receive until something other than
\* BlockFinish shows up; an exhausted queue stands for a closed channel (None)
RECURSIVE RecvSkipBlockFinish(_)
RecvSkipBlockFinish(rx) ==
    IF rx = <<>>
    THEN [type |-> "None", item |-> NoItem, rest |-> <<>>]
    ELSE IF Head(rx).type = "BlockFinish"
         THEN RecvSkipBlockFinish(Tail(rx))
         ELSE [type |-> Head(rx).type, item |-> Head(rx).item, rest |-> Tail(rx)]

\* key_cur.key_bytes.cmp(&key_min.key_bytes)
KeyCmp(key_cur, key_min) ==
    IF key_cur < key_min THEN "Less" ELSE IF key_cur = key_min THEN "Equal" ELSE "Greater"

\* mutant: a smaller key does not restart the advance list, it is chained as if equal
LinkFrontChainLess(its, head, cursor) ==
    IF head = 0
    THEN [iters |-> [its EXCEPT ![cursor].advance_next_idx = 0], head |-> cursor]
    ELSE IF KeyCmp(its[cursor].front.key, its[head].front.key) = "Greater"
         THEN [iters |-> its, head |-> head]
         ELSE [iters |-> [its EXCEPT ![cursor].advance_next_idx = head], head |-> cursor]

\* FrontItem branch of the scan: link the cursor into the advance list
LinkFront(its, head, cursor) ==
    IF head = 0
    THEN [iters |-> [its EXCEPT ![cursor].advance_next_idx = 0], head |-> cursor]
    ELSE LET ord == KeyCmp(its[cursor].front.key, its[head].front.key) IN
         CASE ord = "Less" ->
                [iters |-> [its EXCEPT ![cursor].advance_next_idx = 0], head |-> cursor]
           [] ord = "Equal" ->
                [iters |-> [its EXCEPT ![cursor].advance_next_idx = head], head |-> cursor]
           [] OTHER ->
                [iters |-> its, head |-> head]

\* the scan loop `while cursor_idx < self.iters.len()`
RECURSIVE ScanLoop(_, _, _)
ScanLoop(its, head, cursor) ==
    IF cursor > Len(its)
    THEN [iters |-> its, head |-> head, err |-> FALSE]
    ELSE IF its[cursor].iter_state = "NotReady"
         THEN LET r == RecvSkipBlockFinish(its[cursor].key_values_rx) IN
              CASE r.type = "None" ->
                     [iters |-> [its EXCEPT ![cursor].key_values_rx = <<>>],
                      head |-> head, err |-> TRUE]
                [] r.type = "NoMore" ->
                     ScanLoop(SwapRemove(its, cursor), head, cursor)
                [] OTHER ->
                     ScanLoop([its EXCEPT ![cursor].key_values_rx = r.rest,
                                          ![cursor].iter_state = "FrontItem",
                                          ![cursor].front = r.item],
                              head, cursor)
         ELSE LET l == LinkFront(its, head, cursor) IN
              ScanLoop(l.iters, l.head, cursor + 1)

\* mutant: on a version tie or a newer incoming item nothing is reported
SelectBestSilent(prev_best, front_item) ==
    IF prev_best.version < front_item.version
    THEN [best |-> front_item, deprecated |-> <<prev_best>>]
    ELSE [best |-> prev_best, deprecated |-> <<>>]

\* mutant: the comparison is inverted, the older cell is kept
SelectBestOldest(prev_best, front_item) ==
    IF prev_best.version > front_item.version
    THEN [best |-> front_item, deprecated |-> <<prev_best>>]
    ELSE [best |-> prev_best, deprecated |-> <<front_item>>]

\* `match best_item { Some(prev_best) => if prev_best.version < front_item.version ..`
SelectBest(prev_best, front_item) ==
    IF prev_best.version < front_item.version
    THEN [best |-> front_item, deprecated |-> <<prev_best>>]
    ELSE [best |-> prev_best, deprecated |-> <<front_item>>]

\* the drain loop `while let Some(advance_head_idx) = self.advance_head_idx`
RECURSIVE DrainLoop(_, _, _, _)
DrainLoop(its, head, best, dep) ==
    IF head = 0
    THEN [iters |-> its, best |-> best, deprecated |-> dep]
    ELSE LET front_item == its[head].front
             its2 == [its EXCEPT ![head].iter_state = "NotReady", ![head].front = NoItem]
             sel == IF best = NoItem
                    THEN [best |-> front_item, deprecated |-> <<>>]
                    ELSE SelectBest(best, front_item)
         IN DrainLoop(its2, its[head].advance_next_idx, sel.best, dep \o sel.deprecated)

\* ItersMerger::next_with_deprecated, with a callback that records its arguments
NextWithDeprecated(its, head) ==
    LET s == ScanLoop(its, head, 1) IN
    IF s.err
    THEN [iters |-> s.iters, advance_head_idx |-> s.head,
          result |-> "Err", item |-> NoItem, deprecated |-> <<>>]
    ELSE LET d == DrainLoop(s.iters, s.head, NoItem, <<>>) IN
         [iters |-> d.iters, advance_head_idx |-> 0,
          result |-> IF d.best = NoItem THEN "None" ELSE "Some",
          item |-> d.best, deprecated |-> d.deprecated]

\* =============================================================== manager.rs
\* ------------------------------------------------------------- data, helpers

\* kv::ValueCell; version 0 with cell "None" stands for Option::None
NoCell == [version |-> 0, cell |-> "None"]
\* Option<kv::ValueCell<storage::OwnedValueBlockRef>>: a cell and the tree whose
\* blocks hold its value (0: the value is inline, as for every butcher reply)
NoFound == [version |-> 0, cell |-> "None", tree |-> 0]
EmptyCache == [k \in StoreKeys |-> NoCell]
CacheKeys(cache) == {k \in DOMAIN cache : cache[k].version # 0}
\* MemCache::len
CacheLen(cache) == Cardinality(CacheKeys(cache))

\* Info::default and `info_fold += info` (lib.rs)
InfoDefault == [alive_cells_count |-> 0, tombstones_count |-> 0]
\* mutant: the sum keeps the counts of the reply that came last
InfoAddLast(a, b) == b
InfoAdd(a, b) ==
    [alive_cells_count |-> a.alive_cells_count + b.alive_cells_count,
     tombstones_count |-> a.tombstones_count + b.tombstones_count]
InfoOf(cache) ==
    [alive_cells_count |-> Cardinality({k \in DOMAIN cache : cache[k].cell = "Value"}),
     tombstones_count |-> Cardinality({k \in DOMAIN cache : cache[k].cell = "Tombstone"})]

\* o1::set::Set::insert hands out a ref not in use
FreshRef(table) == CHOOSE r \in 1..(Cardinality(DOMAIN table) + 1) : r \notin DOMAIN table
Insert(table, r, entry) == [x \in DOMAIN table \cup {r} |-> IF x = r THEN entry ELSE table[x]]
Remove(table, r) == [x \in DOMAIN table \ {r} |-> table[x]]
\* mutant: the set hands out the ref of the tree inserted last once more
NewTreeRefReused == IF DOMAIN trees = {} THEN 1 ELSE Cardinality(DOMAIN trees)
NewTreeRef == Cardinality(DOMAIN trees) + 1

\* mutant: an incoming reply only fills an empty fold
ReplaceFoldFoundFirst(current, incoming) ==
    current.version = 0 /\ incoming.version # 0

\* fn replace_fold_found
replace_fold_found(current, incoming) ==
    CASE current.version = 0 /\ incoming.version = 0 -> FALSE
      [] current.version # 0 /\ incoming.version = 0 -> FALSE
      [] current.version = 0 /\ incoming.version # 0 -> TRUE
      [] OTHER -> current.version < incoming.version

\* ---- TreeSizeHeap (bin_merger::BinMerger), from its stated contract
RECURSIVE Log2Floor(_)
Log2Floor(n) == IF n <= 1 THEN 0 ELSE 1 + Log2Floor(n \div 2)
Bucket(items_count) == Log2Floor(items_count)
\* push(tref): the ref joins its bucket behind the refs already there
BinPush(refs, tref) == Append(refs, tref)
BucketOf(refs, b) == SelectSeq(refs, LAMBDA r : Bucket(r.items_count) = b)
EligibleBuckets(refs) ==
    {b \in {Bucket(refs[i].items_count) : i \in DOMAIN refs} : Len(BucketOf(refs, b)) >= 2}
\* pop(): the two oldest refs of the most populated bucket that holds two or more
BinPop(refs) ==
    IF EligibleBuckets(refs) = {}
    THEN [some |-> FALSE, a |-> 0, b |-> 0, refs |-> refs]
    ELSE LET best == CHOOSE b \in EligibleBuckets(refs) :
                        \A c \in EligibleBuckets(refs) :
                           \/ Len(BucketOf(refs, b)) > Len(BucketOf(refs, c))
                           \/ Len(BucketOf(refs, b)) = Len(BucketOf(refs, c)) /\ b <= c
             q == BucketOf(refs, best)
         IN [some |-> TRUE, a |-> q[1], b |-> q[2],
             refs |-> SelectSeq(refs, LAMBDA r : r # q[1] /\ r # q[2])]

\* ---- tasks: one record shape for every task::TaskArgs / task::TaskDone
TaskBase ==
    [kind |-> "none", request_ref |-> 0, tree |-> 0, tree_b |-> 0, key |-> 0,
     client |-> 0, found |-> NoFound, info |-> InfoDefault, streams |-> {},
     butcher_iter_items |-> <<>>,
     stage |-> "sent", outcome |-> "none", flush_any |-> 0, flush_nr |-> 0]

\* a task against an immutable tree (or over two of them): what it returns is
\* fixed by its arguments, so it is ready from the moment it is pushed
TreeTask == [TaskBase EXCEPT !.stage = "done"]

\* ---- SearchTree: a tree's items as the stream it sends to a merger
RECURSIVE TreeStream(_, _)
TreeStream(t, k) ==
    IF k \notin DOMAIN trees[t].data
    THEN <<MsgNoMore>>
    ELSE (IF trees[t].data[k].version # 0
          THEN <<MsgItem(k, trees[t].data[k].version, t)>>
          ELSE <<>>) \o TreeStream(t, k + 1)

\* MergeTrees task: drain an ItersMerger over both trees into the new tree
RECURSIVE MergeDrain(_, _, _)
MergeDrain(its, head, acc) ==
    \* (r ranges over a singleton, so that the call is evaluated once)
    CHOOSE merged \in
        {IF r.result = "Some"
         THEN MergeDrain(r.iters, r.advance_head_idx,
                         [acc EXCEPT ![r.item.key] = trees[r.item.src].data[r.item.key]])
         ELSE acc : r \in {NextWithDeprecated(its, head)}} : TRUE

MergeTreesData(a, b) ==
    MergeDrain(<<KeyValuesIterNew(TreeStream(a, 1)), KeyValuesIterNew(TreeStream(b, 1))>>,
               0, [k \in DOMAIN trees[a].data |-> NoCell])

\* LookupTree task: the tree's cell for the key, located in that tree
TreeLookup(t, key) ==
    [version |-> trees[t].data[key].version, cell |-> trees[t].data[key].cell,
     tree |-> IF trees[t].data[key].version = 0 THEN 0 ELSE t]

\* -------------------------------------------------- mode-gated event select

ModeRegular == [name |-> "Regular", done_reply_tx |-> 0]
ModeFlushing(reply_tx) == [name |-> "Flushing", done_reply_tx |-> reply_tx]

\* mutant: the foreground task set is polled whatever tasks_count is
PolledSourcesTasksAlways ==
    IF current_mode.name = "Regular"
    THEN {"request", "flush_cache", "bg_tasks", "tasks"}
    ELSE IF tasks_count + bg_tasks_count = 0 THEN {}
    ELSE IF bg_tasks_count = 0 THEN {"flush_cache", "tasks"}
    ELSE {"flush_cache", "bg_tasks", "tasks"}

\* mutant: the select polls the same channels in both modes
PolledSourcesModeBlind ==
    IF tasks_count = 0
    THEN {"request", "flush_cache", "bg_tasks"}
    ELSE {"request", "flush_cache", "bg_tasks", "tasks"}

\* mutant: while Flushing with no foreground task left, requests are polled too
PolledSourcesRequestsInFlushing ==
    IF current_mode.name = "Regular"
    THEN IF tasks_count = 0
         THEN {"request", "flush_cache", "bg_tasks"}
         ELSE {"request", "flush_cache", "bg_tasks", "tasks"}
    ELSE IF tasks_count + bg_tasks_count = 0 THEN {}
    ELSE IF tasks_count = 0 THEN {"request", "flush_cache", "bg_tasks"}
    ELSE IF bg_tasks_count = 0 THEN {"flush_cache", "tasks"}
    ELSE {"flush_cache", "bg_tasks", "tasks"}

\* mutant: while Flushing the ButcherFlush channel is not polled
PolledSourcesTasksOnlyInFlushing ==
    IF current_mode.name = "Regular"
    THEN IF tasks_count = 0
         THEN {"request", "flush_cache", "bg_tasks"}
         ELSE {"request", "flush_cache", "bg_tasks", "tasks"}
    ELSE IF tasks_count + bg_tasks_count = 0 THEN {}
    ELSE IF tasks_count = 0 THEN {"bg_tasks"}
    ELSE IF bg_tasks_count = 0 THEN {"tasks"}
    ELSE {"bg_tasks", "tasks"}

\* mutant: while Flushing the results of background tasks are never taken
PolledSourcesNoBgTasksInFlushing ==
    IF current_mode.name = "Regular"
    THEN IF tasks_count = 0
         THEN {"request", "flush_cache", "bg_tasks"}
         ELSE {"request", "flush_cache", "bg_tasks", "tasks"}
    ELSE IF tasks_count + bg_tasks_count = 0 THEN {}
    ELSE IF tasks_count = 0 THEN {"flush_cache"}
    ELSE {"flush_cache", "tasks"}

\* the channels the select! of the current loop iteration polls
PolledSources ==
    IF current_mode.name = "Regular"
    THEN IF tasks_count = 0
         THEN {"request", "flush_cache", "bg_tasks"}
         ELSE {"request", "flush_cache", "bg_tasks", "tasks"}
    ELSE IF tasks_count + bg_tasks_count = 0 THEN {}
    ELSE IF tasks_count = 0 THEN {"flush_cache", "bg_tasks"}
    ELSE IF bg_tasks_count = 0 THEN {"flush_cache", "tasks"}
    ELSE {"flush_cache", "bg_tasks", "tasks"}

\* mutant: Flushed is sent as soon as the foreground tasks are done
FlushingFinishedForegroundOnly ==
    current_mode.name = "Flushing" /\ tasks_count = 0

\* `Mode::Flushing { .. } if tasks_count + bg_tasks_count == 0`
FlushingFinished ==
    current_mode.name = "Flushing" /\ tasks_count + bg_tasks_count = 0

\* mutant: the loop goes on after a task error
RunningAfterFailure == pc \in {"loop", "failed"}

\* busyloop is inside `loop { .. }`: it has not returned and not panicked
Running == pc = "loop"
RequestReady(kind) ==
    /\ Running
    /\ "request" \in PolledSources
    /\ request_queue # <<>>
    /\ Head(request_queue).kind = kind

\* a foreground task whose future is ready, when the select polls `tasks`
TaskReady(t, kind) ==
    /\ Running
    /\ "tasks" \in PolledSources
    /\ BagIn(t, tasks)
    /\ t.kind = kind
    /\ t.stage = "done"

\* a background task result waiting on bg_tasks_rx, when the select polls it
BgTaskReady(t, kind) ==
    /\ Running
    /\ "bg_tasks" \in PolledSources
    /\ BagIn(t, bg_tasks)
    /\ t.kind = kind
    /\ t.stage = "done"

Push(bag, ts) == bag (+) SetToBag(ts)
Pop(bag, t) == bag (-) SetToBag({t})
Restage(bag, t, t2) == (bag (-) SetToBag({t})) (+) SetToBag({t2})

\* ------------------------------------------------------------------ clients

ClientIdle ==
    [pc |-> "idle", op |-> "none", key |-> 0, floor |-> [k \in StoreKeys |-> 0],
     seen |-> 0, clean |-> TRUE, reply |-> NoCell, info |-> InfoDefault,
     flush_any |-> 0, flush_nr |-> 0]

PendingWrite(c, k) ==
    clients[c].pc = "wait" /\ clients[c].op \in {"insert", "remove"} /\ clients[c].key = k

\* Pid::info / insert / lookup / lookup_range / remove / flush_all: send the request
ClientSend(c, op, k) ==
    /\ Running
    /\ clients[c].pc = "idle"
    /\ ops_left > 0
    /\ ops_left' = ops_left - 1
    /\ request_queue' = Append(request_queue, [kind |-> op, client |-> c, key |-> k])
    /\ clients' = [d \in Clients |->
          IF d = c
          THEN [ClientIdle EXCEPT !.pc = "wait", !.op = op, !.key = k, !.floor = acked,
                                  !.seen = IF op = "lookup" THEN max_seen[k] ELSE 0,
                                  !.clean = \A e \in Clients : ~PendingWrite(e, k)]
          ELSE IF op \in {"insert", "remove"} /\ clients[d].pc = "wait"
                  /\ clients[d].op = "lookup" /\ clients[d].key = k
               THEN [clients[d] EXCEPT !.clean = FALSE]
               ELSE clients[d]]
    /\ UNCHANGED <<loop_vars, flush_cache_chan, trees, memcache, version_counter,
                   write_log, acked, last_seen, max_seen, flush_accepted, flushed_sent>>
    /\ UNCHANGED <<merger_vars, load_vars, iter_cache_vars>>

ClientInfo == \E c \in Clients : ClientSend(c, "info", 0)
ClientInsert == \E c \in Clients, k \in StoreKeys : ClientSend(c, "insert", k)
ClientLookup == \E c \in Clients, k \in StoreKeys : ClientSend(c, "lookup", k)
ClientLookupRange == \E c \in Clients : ClientSend(c, "lookup_range", 0)
ClientRemove == \E c \in Clients, k \in StoreKeys : ClientSend(c, "remove", k)
ClientFlush == \E c \in Clients : ClientSend(c, "flush", 0)

\* mutant: a reply reaches its caller though the call's future was dropped
DeliverToDropped(c, fields) ==
    [clients EXCEPT ![c] = fields @@ [clients[c] EXCEPT !.pc = "idle"]]

\* the client's oneshot receiver yields `reply`
\* a send on a reply channel; one whose receiver was dropped with the call's
\* future fails and changes nothing
Deliver(c, fields) ==
    IF clients[c].pc = "dropped"
    THEN clients
    ELSE [clients EXCEPT ![c] = fields @@ [clients[c] EXCEPT !.pc = "idle"]]

\* ---------------------------------------------------------- request handlers

\* mutant: the lookup is fanned out to the butcher alone
LaunchLookupButcherOnly(key, reply_tx, flush_any, flush_nr) ==
    LET request_ref == FreshRef(lookup_requests) IN
    [requests |-> Insert(lookup_requests, request_ref,
                     [key |-> key, reply_tx |-> reply_tx, butcher_status |-> "NotReady",
                      pending_count |-> 1, found_fold |-> NoFound,
                      flush_any |-> flush_any, flush_nr |-> flush_nr]),
     pushed |-> {[TaskBase EXCEPT !.kind = "LookupButcher", !.key = key,
                                  !.request_ref = request_ref]}]

\* mutant: the tracker entry starts with the butcher's reply written off
LaunchLookupInvalidated(key, reply_tx, flush_any, flush_nr) ==
    LET request_ref == FreshRef(lookup_requests) IN
    [requests |-> Insert(lookup_requests, request_ref,
                     [key |-> key, reply_tx |-> reply_tx, butcher_status |-> "Invalidated",
                      pending_count |-> 1 + Cardinality(search_trees),
                      found_fold |-> NoFound,
                      flush_any |-> flush_any, flush_nr |-> flush_nr]),
     pushed |-> {[TaskBase EXCEPT !.kind = "LookupButcher", !.key = key,
                                  !.request_ref = request_ref]}
                \cup {[TreeTask EXCEPT !.kind = "LookupSearchTree", !.key = key,
                                       !.request_ref = request_ref, !.tree = t]
                      : t \in search_trees}]

\* mutant: the tracker entry counts the trees' replies but not the butcher's
LaunchLookupUndercounted(key, reply_tx, flush_any, flush_nr) ==
    LET request_ref == FreshRef(lookup_requests) IN
    [requests |-> Insert(lookup_requests, request_ref,
                     [key |-> key, reply_tx |-> reply_tx, butcher_status |-> "NotReady",
                      pending_count |-> Cardinality(search_trees),
                      found_fold |-> NoFound,
                      flush_any |-> flush_any, flush_nr |-> flush_nr]),
     pushed |-> {[TaskBase EXCEPT !.kind = "LookupButcher", !.key = key,
                                  !.request_ref = request_ref]}
                \cup {[TreeTask EXCEPT !.kind = "LookupSearchTree", !.key = key,
                                       !.request_ref = request_ref, !.tree = t]
                      : t \in search_trees}]

\* mutant: the tracker entry waits for one reply more than it is owed
LaunchLookupOvercounted(key, reply_tx, flush_any, flush_nr) ==
    LET request_ref == FreshRef(lookup_requests) IN
    [requests |-> Insert(lookup_requests, request_ref,
                     [key |-> key, reply_tx |-> reply_tx, butcher_status |-> "NotReady",
                      pending_count |-> 2 + Cardinality(search_trees),
                      found_fold |-> NoFound,
                      flush_any |-> flush_any, flush_nr |-> flush_nr]),
     pushed |-> {[TaskBase EXCEPT !.kind = "LookupButcher", !.key = key,
                                  !.request_ref = request_ref]}
                \cup {[TreeTask EXCEPT !.kind = "LookupSearchTree", !.key = key,
                                       !.request_ref = request_ref, !.tree = t]
                      : t \in search_trees}]

\* launch_lookup_request: the tracker entry and the tasks it pushes
LaunchLookup(key, reply_tx, flush_any, flush_nr) ==
    LET request_ref == FreshRef(lookup_requests) IN
    [requests |-> Insert(lookup_requests, request_ref,
                     [key |-> key, reply_tx |-> reply_tx, butcher_status |-> "NotReady",
                      pending_count |-> 1 + Cardinality(search_trees),
                      found_fold |-> NoFound,
                      flush_any |-> flush_any, flush_nr |-> flush_nr]),
     pushed |-> {[TaskBase EXCEPT !.kind = "LookupButcher", !.key = key,
                                  !.request_ref = request_ref]}
                \cup {[TreeTask EXCEPT !.kind = "LookupSearchTree", !.key = key,
                                       !.request_ref = request_ref, !.tree = t]
                      : t \in search_trees}]

\* Event::Request(Some(Request::Info(..)))
HandleRequestInfo ==
    /\ RequestReady("info")
    /\ LET req == Head(request_queue)
           request_ref == FreshRef(info_requests)
           pushed == {[TaskBase EXCEPT !.kind = "InfoButcher", !.request_ref = request_ref]}
                     \cup {[TreeTask EXCEPT !.kind = "InfoSearchTree",
                                            !.request_ref = request_ref, !.tree = t]
                           : t \in search_trees}
       IN /\ info_requests' = Insert(info_requests, request_ref,
                                 [reply_tx |-> req.client,
                                  pending_count |-> 1 + Cardinality(search_trees),
                                  info_fold |-> InfoDefault])
          /\ tasks' = Push(tasks, pushed)
          /\ tasks_count' = tasks_count + Cardinality(pushed)
    /\ request_queue' = Tail(request_queue)
    /\ current_mode' = ModeRegular
    /\ UNCHANGED <<pc, search_trees, search_tree_refs, lookup_requests,
                   lookup_range_requests, flush_requests, bg_tasks, bg_tasks_count,
                   merge_search_trees_tasks_count, flush_cache_chan, trees, memcache,
                   version_counter, clients, hist_vars>>
    /\ UNCHANGED <<merger_vars, load_vars, iter_cache_vars>>

\* Event::Request(Some(Request::Insert(..))) and Event::Request(Some(Request::Remove(..)))
HandleRequestWrite(kind, task_kind) ==
    /\ RequestReady(kind)
    /\ LET req == Head(request_queue) IN
          tasks' = Push(tasks, {[TaskBase EXCEPT !.kind = task_kind, !.key = req.key,
                                                 !.client = req.client]})
    /\ tasks_count' = tasks_count + 1
    /\ request_queue' = Tail(request_queue)
    /\ current_mode' = ModeRegular
    /\ UNCHANGED <<pc, search_trees, search_tree_refs, info_requests, lookup_requests,
                   lookup_range_requests, flush_requests, bg_tasks, bg_tasks_count,
                   merge_search_trees_tasks_count, flush_cache_chan, trees, memcache,
                   version_counter, clients, hist_vars>>
    /\ UNCHANGED <<merger_vars, load_vars, iter_cache_vars>>

HandleRequestInsert == HandleRequestWrite("insert", "InsertButcher")
HandleRequestRemove == HandleRequestWrite("remove", "RemoveButcher")

\* Event::Request(Some(Request::Lookup(..)))
HandleRequestLookup ==
    /\ RequestReady("lookup")
    /\ LET req == Head(request_queue)
           l == LaunchLookup(req.key, req.client, 0, 0)
       IN /\ lookup_requests' = l.requests
          /\ tasks' = Push(tasks, l.pushed)
          /\ tasks_count' = tasks_count + Cardinality(l.pushed)
    /\ request_queue' = Tail(request_queue)
    /\ current_mode' = ModeRegular
    /\ UNCHANGED <<pc, search_trees, search_tree_refs, info_requests,
                   lookup_range_requests, flush_requests, bg_tasks, bg_tasks_count,
                   merge_search_trees_tasks_count, flush_cache_chan, trees, memcache,
                   version_counter, clients, hist_vars>>
    /\ UNCHANGED <<merger_vars, load_vars, iter_cache_vars>>

\* Event::Request(Some(Request::LookupRange(..))): the receiver goes to the client
\* at once, then the butcher is asked for its part of the range
HandleRequestLookupRange ==
    /\ RequestReady("lookup_range")
    /\ LET req == Head(request_queue) IN
          /\ clients' = Deliver(req.client, [reply |-> [version |-> 0, cell |-> "LookupRange"]])
          /\ tasks' = Push(tasks, {[TaskBase EXCEPT !.kind = "LookupRangeButcher",
                                                    !.key = req.key,
                                                    !.client = req.client]})
    /\ tasks_count' = tasks_count + 1
    /\ request_queue' = Tail(request_queue)
    /\ current_mode' = ModeRegular
    /\ UNCHANGED <<pc, search_trees, search_tree_refs, info_requests, lookup_requests,
                   lookup_range_requests, flush_requests, bg_tasks, bg_tasks_count,
                   merge_search_trees_tasks_count, flush_cache_chan, trees, memcache,
                   version_counter, hist_vars>>
    /\ UNCHANGED <<merger_vars, load_vars, iter_cache_vars>>

\* Event::Request(Some(Request::FlushAll(..)))
HandleRequestFlushAll ==
    /\ RequestReady("flush")
    /\ LET req == Head(request_queue)
           request_ref == FreshRef(flush_requests)
       IN /\ flush_requests' = Insert(flush_requests, request_ref,
                                  [butcher_done |-> FALSE, search_trees_pending_count |-> 0])
          /\ tasks' = Push(tasks, {[TaskBase EXCEPT !.kind = "FlushButcher",
                                                    !.request_ref = request_ref]})
          /\ current_mode' = ModeFlushing(req.client)
    /\ tasks_count' = tasks_count + 1
    /\ request_queue' = Tail(request_queue)
    /\ flush_accepted' = flush_accepted + 1
    /\ UNCHANGED <<pc, search_trees, search_tree_refs, info_requests, lookup_requests,
                   lookup_range_requests, bg_tasks, bg_tasks_count,
                   merge_search_trees_tasks_count, flush_cache_chan, trees, memcache,
                   version_counter, clients, ops_left, write_log, acked, last_seen,
                   max_seen, flushed_sent>>
    /\ UNCHANGED <<merger_vars, load_vars, iter_cache_vars>>

\* `Mode::Flushing { done_reply_tx } if tasks_count + bg_tasks_count == 0`:
\* reply Flushed; the mode left behind by mem::replace is Regular
FlushingDone ==
    /\ Running
    /\ FlushingFinished
    /\ clients' = Deliver(current_mode.done_reply_tx, [reply |-> [version |-> 0, cell |-> "Flushed"]])
    /\ current_mode' = ModeRegular
    /\ flushed_sent' = flushed_sent + 1
    /\ UNCHANGED <<pc, search_trees, search_tree_refs, info_requests, lookup_requests,
                   lookup_range_requests, flush_requests, tasks, tasks_count, bg_tasks,
                   bg_tasks_count, merge_search_trees_tasks_count, request_queue,
                   flush_cache_chan, trees, memcache, version_counter, ops_left,
                   write_log, acked, last_seen, max_seen, flush_accepted>>
    /\ UNCHANGED <<merger_vars, load_vars, iter_cache_vars>>

\* ------------------------------------------------------------ ButcherFlush

Max(a, b) == IF a >= b THEN a ELSE b

\* an unwrap() or assert!() of the loop failed
PanicStep ==
    /\ pc' = "panicked"
    /\ UNCHANGED <<current_mode, search_trees, search_tree_refs, info_requests,
                   lookup_requests, lookup_range_requests, flush_requests, tasks,
                   tasks_count, bg_tasks, bg_tasks_count, merge_search_trees_tasks_count,
                   env_vars, hist_vars>>

\* mutant: no pair is ever popped
MaybeMergeSearchTreesNever(refs, tree_set) ==
    [some |-> FALSE, panic |-> FALSE, refs |-> refs, pushed |-> {}]

\* mutant: the first tree popped is given to the merge as both of its sources
MaybeMergeSearchTreesSelfPair(refs, tree_set) ==
    LET p == BinPop(refs) IN
    IF ~p.some
    THEN [some |-> FALSE, panic |-> FALSE, refs |-> refs, pushed |-> {}]
    ELSE [some |-> TRUE,
          panic |-> ~(p.a.search_tree_ref \in tree_set /\ p.b.search_tree_ref \in tree_set),
          refs |-> p.refs,
          pushed |-> {[TreeTask EXCEPT !.kind = "MergeSearchTrees",
                                       !.tree = p.a.search_tree_ref,
                                       !.tree_b = p.a.search_tree_ref]}]

\* fn maybe_merge_search_trees: pop a pair and look both trees up in the set
MaybeMergeSearchTrees(refs, tree_set) ==
    LET p == BinPop(refs) IN
    IF ~p.some
    THEN [some |-> FALSE, panic |-> FALSE, refs |-> refs, pushed |-> {}]
    ELSE [some |-> TRUE,
          panic |-> ~(p.a.search_tree_ref \in tree_set /\ p.b.search_tree_ref \in tree_set),
          refs |-> p.refs,
          pushed |-> {[TreeTask EXCEPT !.kind = "MergeSearchTrees",
                                       !.tree = p.a.search_tree_ref,
                                       !.tree_b = p.b.search_tree_ref]}]

\* the end of a channel's stream, after everything sent before the last sender
\* was dropped: what `.next()` yields as None
ClosedRequest == [kind |-> "closed", client |-> 0, key |-> 0]
ClosedCache == [k \in {0} |-> NoCell]

\* mutant: a flush invalidates nothing
InvalidatedByFlushNone == {}

\* mutant: a flush invalidates every lookup request in the table
InvalidatedByFlushAll == DOMAIN lookup_requests

\* the lookup requests a cache flush invalidates: butcher reply not yet received
InvalidatedByFlush ==
    {r \in DOMAIN lookup_requests : lookup_requests[r].butcher_status = "NotReady"}

\* (history) the FlushAll under way whose FlushButcher ack the loop has handled
\* already, by its number among the accepted ones; 0 when there is none.  A tree
\* attached then is not among the targets of that flush's FlushSearchTree tasks
FlushPastButcherAck ==
    IF /\ current_mode.name = "Flushing"
       /\ \A r \in DOMAIN flush_requests : flush_requests[r].butcher_done
    THEN flush_accepted
    ELSE 0

\* Event::FlushCache(Some(ButcherFlush { cache }))
HandleFlushCache ==
    /\ Running
    /\ "flush_cache" \in PolledSources
    /\ flush_cache_chan # <<>>
    /\ Head(flush_cache_chan) # ClosedCache
    /\ LET cache == Head(flush_cache_chan)
           search_tree_ref == NewTreeRef
           tree_set == search_trees \cup {search_tree_ref}
           m == MaybeMergeSearchTrees(
                    BinPush(search_tree_refs, [items_count |-> CacheLen(cache),
                                               search_tree_ref |-> search_tree_ref]),
                    tree_set)
           invalidated == InvalidatedByFlush
           pushed == {[TreeTask EXCEPT !.kind = "LookupSearchTree",
                                       !.key = lookup_requests[r].key,
                                       !.request_ref = r, !.tree = search_tree_ref]
                      : r \in invalidated}
       IN IF m.panic
          THEN PanicStep
          ELSE /\ trees' = Insert(trees, search_tree_ref,
                               [data |-> cache, mode |-> "CacheBootstrap", flushed |-> FALSE,
                                origin |-> "flush", late_for |-> FlushPastButcherAck])
               /\ search_trees' = tree_set
               /\ search_tree_refs' = m.refs
               /\ bg_tasks' = Push(bg_tasks, m.pushed)
               /\ bg_tasks_count' = bg_tasks_count + Cardinality(m.pushed)
               /\ merge_search_trees_tasks_count' =
                      merge_search_trees_tasks_count + Cardinality(m.pushed)
               /\ lookup_requests' = [r \in DOMAIN lookup_requests |->
                      LET q == lookup_requests[r]
                          v == cache[q.key].version
                      IN IF r \in invalidated
                         THEN [q EXCEPT !.butcher_status = "Invalidated",
                                        !.pending_count = @ + 1,
                                        !.flush_any = Max(@, v),
                                        !.flush_nr = IF q.butcher_status = "NotReady"
                                                     THEN Max(@, v) ELSE @]
                         ELSE [q EXCEPT !.flush_any = Max(@, v),
                                        !.flush_nr = IF q.butcher_status = "NotReady"
                                                     THEN Max(@, v) ELSE @]]
               /\ tasks' = Push(tasks, pushed)
               /\ tasks_count' = tasks_count + Cardinality(pushed)
               /\ flush_cache_chan' = <<>>
               /\ UNCHANGED <<pc, current_mode, info_requests, lookup_range_requests,
                              flush_requests, request_queue, memcache, version_counter,
                              clients, hist_vars>>
    /\ UNCHANGED <<merger_vars, load_vars, iter_cache_vars>>

\* ---------------------------------------------------------------- the butcher
\* (core::butcher is not among the sources: modelled from its interface.  It
\* serves one request at a time; handing a cache over is Pid::flush_cache, a send
\* on a zero-capacity channel that completes when the Manager has received it.)

ButcherFree == flush_cache_chan = <<>>

ButcherTurn(t, kind) ==
    /\ Running
    /\ BagIn(t, tasks)
    /\ t.kind = kind
    /\ t.stage = "sent"
    /\ ButcherFree

\* InsertButcher / RemoveButcher: take a version, store the cell, acknowledge the
\* client; a write that fills the buffer makes the butcher hand the cache over
ButcherWrite(t, kind, cell, ack) ==
    /\ ButcherTurn(t, kind)
    /\ LET version == version_counter + 1
           cache == [memcache EXCEPT ![t.key] = [version |-> version, cell |-> cell]]
       IN /\ version_counter' = version
          /\ write_log' = Append(write_log, [key |-> t.key, cell |-> cell])
          /\ acked' = [acked EXCEPT ![t.key] = version]
          /\ clients' = Deliver(t.client, [reply |-> [version |-> version, cell |-> ack]])
          /\ tasks' = Restage(tasks, t, [t EXCEPT !.stage = "done"])
          /\ \E full \in BOOLEAN :
                IF full
                THEN memcache' = EmptyCache /\ flush_cache_chan' = <<cache>>
                ELSE memcache' = cache /\ flush_cache_chan' = <<>>
    /\ UNCHANGED <<loop_vars_but_tasks, request_queue, trees, ops_left, last_seen,
                   max_seen, flush_accepted, flushed_sent>>
    /\ UNCHANGED <<merger_vars, load_vars, iter_cache_vars>>

ButcherInsert == \E t \in BagToSet(tasks) : ButcherWrite(t, "InsertButcher", "Value", "Inserted")
ButcherRemove == \E t \in BagToSet(tasks) : ButcherWrite(t, "RemoveButcher", "Tombstone", "Removed")

\* LookupButcher: the buffer's cell for the key, value inline
ButcherLookup ==
    \E t \in BagToSet(tasks) :
      /\ ButcherTurn(t, "LookupButcher")
      /\ tasks' = Restage(tasks, t,
             [t EXCEPT !.stage = "done",
                       !.found = [version |-> memcache[t.key].version,
                                  cell |-> memcache[t.key].cell, tree |-> 0]])
      /\ UNCHANGED <<loop_vars_but_tasks, env_vars, hist_vars>>
      /\ UNCHANGED <<merger_vars, load_vars, iter_cache_vars>>

\* InfoButcher
ButcherInfo ==
    \E t \in BagToSet(tasks) :
      /\ ButcherTurn(t, "InfoButcher")
      /\ tasks' = Restage(tasks, t, [t EXCEPT !.stage = "done", !.info = InfoOf(memcache)])
      /\ UNCHANGED <<loop_vars_but_tasks, env_vars, hist_vars>>
      /\ UNCHANGED <<merger_vars, load_vars, iter_cache_vars>>

\* the items of a buffer that lie in the range that starts at key `from`
RangeItems(cache, from) == [k \in DOMAIN cache |-> IF k >= from THEN cache[k] ELSE NoCell]

\* LookupRangeButcher: the buffer's items of the range
ButcherLookupRange ==
    \E t \in BagToSet(tasks) :
      /\ ButcherTurn(t, "LookupRangeButcher")
      /\ tasks' = Restage(tasks, t, [t EXCEPT !.stage = "done",
                                             !.butcher_iter_items = RangeItems(memcache, t.key)])
      /\ UNCHANGED <<loop_vars_but_tasks, env_vars, hist_vars>>
      /\ UNCHANGED <<merger_vars, load_vars, iter_cache_vars>>

\* FlushButcher: hand a non-empty buffer over to the Manager, then acknowledge
ButcherFlush ==
    \E t \in BagToSet(tasks) :
      /\ ButcherTurn(t, "FlushButcher")
      /\ IF CacheLen(memcache) = 0
         THEN /\ tasks' = Restage(tasks, t, [t EXCEPT !.stage = "done"])
              /\ UNCHANGED <<memcache, flush_cache_chan>>
         ELSE /\ tasks' = Restage(tasks, t, [t EXCEPT !.stage = "handoff"])
              /\ memcache' = EmptyCache
              /\ flush_cache_chan' = <<memcache>>
      /\ UNCHANGED <<loop_vars_but_tasks, request_queue, trees, version_counter,
                     clients, hist_vars>>
      /\ UNCHANGED <<merger_vars, load_vars, iter_cache_vars>>

\* the hand-over of a FlushButcher is through: the butcher acknowledges the task
ButcherFlushAck ==
    \E t \in BagToSet(tasks) :
      /\ Running
      /\ t.kind = "FlushButcher"
      /\ t.stage = "handoff"
      /\ ButcherFree
      /\ tasks' = Restage(tasks, t, [t EXCEPT !.stage = "done"])
      /\ UNCHANGED <<loop_vars_but_tasks, env_vars, hist_vars>>
      /\ UNCHANGED <<merger_vars, load_vars, iter_cache_vars>>

\* ------------------------------------------------------ task result handlers
\* Each handler is one loop iteration: the select yields a finished task (its
\* counter is decremented there) and the matching arm of `match event` runs.

\* TaskDone::InfoButcher | TaskDone::InfoSearchTree
HandleInfoDone ==
    \E t \in BagToSet(tasks) :
      /\ TaskReady(t, "InfoButcher") \/ TaskReady(t, "InfoSearchTree")
      /\ IF t.request_ref \notin DOMAIN info_requests
            \/ info_requests[t.request_ref].pending_count = 0
         THEN PanicStep
         ELSE LET q == info_requests[t.request_ref]
                  info == IF t.kind = "InfoButcher" THEN t.info ELSE InfoOf(trees[t.tree].data)
                  q2 == [q EXCEPT !.pending_count = @ - 1, !.info_fold = InfoAdd(@, info)]
              IN /\ IF q2.pending_count = 0
                    THEN /\ info_requests' = Remove(info_requests, t.request_ref)
                         /\ clients' = Deliver(q2.reply_tx,
                                [reply |-> [version |-> 0, cell |-> "Info"],
                                 info |-> q2.info_fold])
                    ELSE /\ info_requests' = [info_requests EXCEPT ![t.request_ref] = q2]
                         /\ UNCHANGED clients
                 /\ tasks' = Pop(tasks, t)
                 /\ tasks_count' = tasks_count - 1
                 /\ UNCHANGED <<pc, current_mode, search_trees, search_tree_refs,
                                lookup_requests, lookup_range_requests, flush_requests,
                                bg_tasks, bg_tasks_count, merge_search_trees_tasks_count,
                                request_queue, flush_cache_chan, trees, memcache,
                                version_counter, hist_vars>>
      /\ UNCHANGED <<merger_vars, load_vars, iter_cache_vars>>

\* TaskDone::InsertButcher | TaskDone::RemoveButcher | TaskDone::DemolishSearchTree
\* | TaskDone::RetrieveValue(RetrieveSuccess): nothing to do
HandleNoopDone(kind) ==
    \E t \in BagToSet(tasks) :
      /\ TaskReady(t, kind)
      /\ t.outcome # "DeprecatedResults"
      /\ tasks' = Pop(tasks, t)
      /\ tasks_count' = tasks_count - 1
      /\ UNCHANGED <<pc, current_mode, search_trees, search_tree_refs, info_requests,
                     lookup_requests, lookup_range_requests, flush_requests, bg_tasks,
                     bg_tasks_count, merge_search_trees_tasks_count, env_vars, hist_vars>>
      /\ UNCHANGED <<merger_vars, load_vars, iter_cache_vars>>

HandleInsertButcherDone == HandleNoopDone("InsertButcher")
HandleRemoveButcherDone == HandleNoopDone("RemoveButcher")
HandleDemolishSearchTreeDone == HandleNoopDone("DemolishSearchTree")
HandleRetrieveValueSuccess == HandleNoopDone("RetrieveValue")

\* the tail shared by both lookup arms: at pending_count == 0 the entry is removed
\* and RetrieveValue is pushed with the folded candidate
LookupFinish(t, q2) ==
    /\ IF q2.pending_count = 0
       THEN /\ lookup_requests' = Remove(lookup_requests, t.request_ref)
            /\ tasks' = Push(Pop(tasks, t),
                   {[TaskBase EXCEPT !.kind = "RetrieveValue", !.key = q2.key,
                                     !.found = q2.found_fold, !.client = q2.reply_tx,
                                     !.flush_any = q2.flush_any, !.flush_nr = q2.flush_nr]})
            /\ tasks_count' = tasks_count - 1 + 1
       ELSE /\ lookup_requests' = [lookup_requests EXCEPT ![t.request_ref] = q2]
            /\ tasks' = Pop(tasks, t)
            /\ tasks_count' = tasks_count - 1
    /\ UNCHANGED <<pc, current_mode, search_trees, search_tree_refs, info_requests,
                   lookup_range_requests, flush_requests, bg_tasks, bg_tasks_count,
                   merge_search_trees_tasks_count, env_vars, hist_vars>>

\* mutant: the butcher's reply is folded whatever the status of the entry
FoldButcherReplyAlways(q, found) ==
    [q EXCEPT !.pending_count = @ - 1,
              !.butcher_status = IF @ = "NotReady" THEN "Done" ELSE @,
              !.found_fold = IF replace_fold_found(@, found) THEN found ELSE @]

\* mutant: the butcher's reply is counted but never becomes the candidate
FoldButcherReplyDiscarded(q, found) ==
    IF q.butcher_status = "NotReady"
    THEN [q EXCEPT !.pending_count = @ - 1, !.butcher_status = "Done"]
    ELSE [q EXCEPT !.pending_count = @ - 1]

\* `match lookup_request.butcher_status` of the LookupButcher arm
FoldButcherReply(q, found) ==
    IF q.butcher_status = "NotReady"
    THEN [q EXCEPT !.pending_count = @ - 1,
                   !.butcher_status = "Done",
                   !.found_fold = IF replace_fold_found(@, found) THEN found ELSE @]
    ELSE [q EXCEPT !.pending_count = @ - 1]

\* TaskDone::LookupButcher
HandleLookupButcherDone ==
    \E t \in BagToSet(tasks) :
      /\ TaskReady(t, "LookupButcher")
      /\ IF t.request_ref \notin DOMAIN lookup_requests
            \/ lookup_requests[t.request_ref].pending_count = 0
            \/ lookup_requests[t.request_ref].butcher_status = "Done"
         THEN PanicStep
         ELSE LookupFinish(t, FoldButcherReply(lookup_requests[t.request_ref], t.found))
      /\ UNCHANGED <<merger_vars, load_vars, iter_cache_vars>>

\* mutant: a tree reply is folded but not counted
FoldTreeReplyKeepsCount(q, found) ==
    [q EXCEPT !.found_fold = IF replace_fold_found(@, found) THEN found ELSE @]

\* the fold of the LookupSearchTree arm
FoldTreeReply(q, found) ==
    [q EXCEPT !.pending_count = @ - 1,
              !.found_fold = IF replace_fold_found(@, found) THEN found ELSE @]

\* TaskDone::LookupSearchTree
HandleLookupSearchTreeDone ==
    \E t \in BagToSet(tasks) :
      /\ TaskReady(t, "LookupSearchTree")
      /\ IF t.request_ref \notin DOMAIN lookup_requests
            \/ lookup_requests[t.request_ref].pending_count = 0
         THEN PanicStep
         ELSE LookupFinish(t, FoldTreeReply(lookup_requests[t.request_ref],
                                            TreeLookup(t.tree, t.key)))
      /\ UNCHANGED <<merger_vars, load_vars, iter_cache_vars>>

\* RetrieveValue task (the value resolver): reply the candidate's cell to the
\* client, unless the candidate's value sits in blocks of a tree that has been
\* compacted away, which the task reports as DeprecatedResults
RetrieveValueRun ==
    \E t \in BagToSet(tasks) :
      /\ Running
      /\ t.kind = "RetrieveValue"
      /\ t.stage = "sent"
      /\ \/ /\ tasks' = Restage(tasks, t, [t EXCEPT !.stage = "done",
                                                    !.outcome = "RetrieveSuccess"])
            /\ clients' = Deliver(t.client,
                   [reply |-> [version |-> t.found.version, cell |-> t.found.cell],
                    flush_any |-> t.flush_any, flush_nr |-> t.flush_nr])
            /\ last_seen' = [last_seen EXCEPT ![t.key] = t.found.version]
            /\ max_seen' = [max_seen EXCEPT ![t.key] = Max(@, t.found.version)]
         \/ /\ t.found.cell = "Value"
            /\ t.found.tree # 0
            /\ t.found.tree \notin search_trees
            /\ tasks' = Restage(tasks, t, [t EXCEPT !.stage = "done",
                                                    !.outcome = "DeprecatedResults"])
            /\ UNCHANGED <<clients, last_seen, max_seen>>
      /\ UNCHANGED <<loop_vars_but_tasks, request_queue, flush_cache_chan, trees,
                     memcache, version_counter, ops_left, write_log, acked,
                     flush_accepted, flushed_sent>>
      /\ UNCHANGED <<merger_vars, load_vars, iter_cache_vars>>

\* TaskDone::RetrieveValue(DeprecatedResults { key, reply_tx }): look up again
HandleRetrieveValueDeprecated ==
    \E t \in BagToSet(tasks) :
      /\ TaskReady(t, "RetrieveValue")
      /\ t.outcome = "DeprecatedResults"
      /\ LET l == LaunchLookup(t.key, t.client, t.flush_any, t.flush_nr) IN
            /\ lookup_requests' = l.requests
            /\ tasks' = Push(Pop(tasks, t), l.pushed)
            /\ tasks_count' = tasks_count - 1 + Cardinality(l.pushed)
      /\ UNCHANGED <<pc, current_mode, search_trees, search_tree_refs, info_requests,
                     lookup_range_requests, flush_requests, bg_tasks, bg_tasks_count,
                     merge_search_trees_tasks_count, env_vars, hist_vars>>
      /\ UNCHANGED <<merger_vars, load_vars, iter_cache_vars>>

\* ------------------------------------------------------------ range lookups

\* mutant: only one tree of the set is asked for its part of the range
LookupRangeTargetsOne == IF search_trees = {} THEN {} ELSE {CHOOSE s \in search_trees : TRUE}

\* `for (_search_tree_ref, search_tree_pid) in search_trees.iter()` of the
\* LookupRangeButcher arm
LookupRangeTargets == search_trees

\* TaskDone::LookupRangeButcher
HandleLookupRangeButcherDone ==
    \E t \in BagToSet(tasks) :
      /\ TaskReady(t, "LookupRangeButcher")
      /\ IF search_trees = {}
         THEN /\ bg_tasks' = Push(bg_tasks,
                     {[TaskBase EXCEPT !.kind = "MergeLookupRange", !.client = t.client,
                                       !.key = t.key,
                                       !.butcher_iter_items = t.butcher_iter_items]})
              /\ bg_tasks_count' = bg_tasks_count + 1
              /\ tasks' = Pop(tasks, t)
              /\ tasks_count' = tasks_count - 1
              /\ UNCHANGED lookup_range_requests
         ELSE LET request_ref == FreshRef(lookup_range_requests) IN
              /\ lookup_range_requests' = Insert(lookup_range_requests, request_ref,
                     [range |-> t.key,
                      key_values_tx |-> t.client,
                      butcher_iter_items |-> t.butcher_iter_items,
                      merger_iters |-> {},
                      pending_count |-> Cardinality(search_trees)])
              /\ tasks' = Push(Pop(tasks, t),
                     {[TreeTask EXCEPT !.kind = "LookupRangeSearchTree", !.key = t.key,
                                       !.request_ref = request_ref, !.tree = s]
                      : s \in LookupRangeTargets})
              /\ tasks_count' = tasks_count - 1 + Cardinality(LookupRangeTargets)
              /\ UNCHANGED <<bg_tasks, bg_tasks_count>>
      /\ UNCHANGED <<pc, current_mode, search_trees, search_tree_refs, info_requests,
                     lookup_requests, flush_requests, merge_search_trees_tasks_count,
                     env_vars, hist_vars>>
      /\ UNCHANGED <<merger_vars, load_vars, iter_cache_vars>>

\* TaskDone::LookupRangeSearchTree
HandleLookupRangeSearchTreeDone ==
    \E t \in BagToSet(tasks) :
      /\ TaskReady(t, "LookupRangeSearchTree")
      /\ IF t.request_ref \notin DOMAIN lookup_range_requests
            \/ lookup_range_requests[t.request_ref].pending_count = 0
         THEN PanicStep
         ELSE LET q == lookup_range_requests[t.request_ref]
                  q2 == [q EXCEPT !.pending_count = @ - 1,
                                  !.merger_iters = @ \cup {t.tree}]
              IN /\ IF q2.pending_count = 0
                    THEN /\ lookup_range_requests' = Remove(lookup_range_requests, t.request_ref)
                         /\ bg_tasks' = Push(bg_tasks,
                                {[TaskBase EXCEPT !.kind = "MergeLookupRange",
                                                  !.key = q2.range,
                                                  !.client = q2.key_values_tx,
                                                  !.butcher_iter_items = q2.butcher_iter_items,
                                                  !.streams = q2.merger_iters]})
                         /\ bg_tasks_count' = bg_tasks_count + 1
                    ELSE /\ lookup_range_requests' =
                                [lookup_range_requests EXCEPT ![t.request_ref] = q2]
                         /\ UNCHANGED <<bg_tasks, bg_tasks_count>>
                 /\ tasks' = Pop(tasks, t)
                 /\ tasks_count' = tasks_count - 1
                 /\ UNCHANGED <<pc, current_mode, search_trees, search_tree_refs,
                                info_requests, lookup_requests, flush_requests,
                                merge_search_trees_tasks_count, env_vars, hist_vars>>
      /\ UNCHANGED <<merger_vars, load_vars, iter_cache_vars>>

\* the ranges a MergeLookupRange may report as modified_range: what is left of
\* its range from the position the scan has reached (a client's range starts
\* below every key, at 0)
ModifiedRanges(t) == t.key..MaxStoreKey

\* MergeLookupRange task (background): stream the merged range to the client; a
\* source tree compacted away meanwhile makes it report DeprecatedResults
MergeLookupRangeRun ==
    \E t \in BagToSet(bg_tasks) :
      /\ Running
      /\ t.kind = "MergeLookupRange"
      /\ t.stage = "sent"
      /\ \/ bg_tasks' = Restage(bg_tasks, t, [t EXCEPT !.stage = "done",
                                                       !.outcome = "MergeSuccess"])
         \/ /\ ~(t.streams \subseteq search_trees)
            /\ \E modified_range \in ModifiedRanges(t) :
                  bg_tasks' = Restage(bg_tasks, t, [t EXCEPT !.stage = "done",
                                                            !.outcome = "DeprecatedResults",
                                                            !.key = modified_range])
      /\ UNCHANGED <<pc, current_mode, search_trees, search_tree_refs, info_requests,
                     lookup_requests, lookup_range_requests, flush_requests, tasks,
                     tasks_count, bg_tasks_count, merge_search_trees_tasks_count,
                     env_vars, hist_vars>>
      /\ UNCHANGED <<merger_vars, load_vars, iter_cache_vars>>

\* TaskDone::MergeLookupRange(MergeSuccess)
HandleMergeLookupRangeSuccess ==
    \E t \in BagToSet(bg_tasks) :
      /\ BgTaskReady(t, "MergeLookupRange")
      /\ t.outcome = "MergeSuccess"
      /\ bg_tasks' = Pop(bg_tasks, t)
      /\ bg_tasks_count' = bg_tasks_count - 1
      /\ UNCHANGED <<pc, current_mode, search_trees, search_tree_refs, info_requests,
                     lookup_requests, lookup_range_requests, flush_requests, tasks,
                     tasks_count, merge_search_trees_tasks_count, env_vars, hist_vars>>
      /\ UNCHANGED <<merger_vars, load_vars, iter_cache_vars>>

\* mutant: the retry scans the whole range again
LookupRangeRetryWholeRange(t) ==
    [TaskBase EXCEPT !.kind = "LookupRangeButcher", !.key = 0, !.client = t.client]

\* lookup_range_butcher::Args { range: modified_range, key_values_tx, .. } of the
\* DeprecatedResults arm
LookupRangeRetry(t) ==
    [TaskBase EXCEPT !.kind = "LookupRangeButcher", !.key = t.key, !.client = t.client]

\* TaskDone::MergeLookupRange(DeprecatedResults { .. }): ask the butcher again
HandleMergeLookupRangeDeprecated ==
    \E t \in BagToSet(bg_tasks) :
      /\ BgTaskReady(t, "MergeLookupRange")
      /\ t.outcome = "DeprecatedResults"
      /\ bg_tasks' = Pop(bg_tasks, t)
      /\ bg_tasks_count' = bg_tasks_count - 1
      /\ tasks' = Push(tasks, {LookupRangeRetry(t)})
      /\ tasks_count' = tasks_count + 1
      /\ UNCHANGED <<pc, current_mode, search_trees, search_tree_refs, info_requests,
                     lookup_requests, lookup_range_requests, flush_requests,
                     merge_search_trees_tasks_count, env_vars, hist_vars>>
      /\ UNCHANGED <<merger_vars, load_vars, iter_cache_vars>>

\* ------------------------------------------------------------------ flushing

\* mutant: once the butcher is flushed the request is done, no tree is flushed
FlushSearchTreeTargetsNone == {}

\* mutant: once the butcher is flushed one tree of the set is flushed
FlushSearchTreeTargetsOne == IF search_trees = {} THEN {} ELSE {CHOOSE s \in search_trees : TRUE}

\* mutant: once the butcher is flushed only the trees built from blocks are flushed
FlushSearchTreeTargetsRegular == {s \in search_trees : trees[s].mode = "Regular"}

\* the trees a FlushSearchTree is dispatched to once the butcher is flushed
FlushSearchTreeTargets == search_trees

\* TaskDone::FlushButcher
HandleFlushButcherDone ==
    \E t \in BagToSet(tasks) :
      /\ TaskReady(t, "FlushButcher")
      /\ IF current_mode.name # "Flushing"
            \/ t.request_ref \notin DOMAIN flush_requests
            \/ flush_requests[t.request_ref].butcher_done
         THEN PanicStep
         ELSE LET targets == FlushSearchTreeTargets IN
              /\ IF targets = {}
                 THEN flush_requests' = Remove(flush_requests, t.request_ref)
                 ELSE flush_requests' = [flush_requests EXCEPT ![t.request_ref] =
                          [butcher_done |-> TRUE,
                           search_trees_pending_count |->
                               @.search_trees_pending_count + Cardinality(targets)]]
              /\ tasks' = Push(Pop(tasks, t),
                     {[TaskBase EXCEPT !.kind = "FlushSearchTree",
                                       !.request_ref = t.request_ref, !.tree = s]
                      : s \in targets})
              /\ tasks_count' = tasks_count - 1 + Cardinality(targets)
              /\ UNCHANGED <<pc, current_mode, search_trees, search_tree_refs,
                             info_requests, lookup_requests, lookup_range_requests,
                             bg_tasks, bg_tasks_count, merge_search_trees_tasks_count,
                             env_vars, hist_vars>>
      /\ UNCHANGED <<merger_vars, load_vars, iter_cache_vars>>

\* FlushSearchTree task: the tree makes sure its blocks are written
SearchTreeFlush ==
    \E t \in BagToSet(tasks) :
      /\ Running
      /\ t.kind = "FlushSearchTree"
      /\ t.stage = "sent"
      /\ tasks' = Restage(tasks, t, [t EXCEPT !.stage = "done"])
      /\ trees' = [trees EXCEPT ![t.tree].flushed = TRUE]
      /\ UNCHANGED <<loop_vars_but_tasks, request_queue, flush_cache_chan, memcache,
                     version_counter, clients, hist_vars>>
      /\ UNCHANGED <<merger_vars, load_vars, iter_cache_vars>>

\* TaskDone::FlushSearchTree
HandleFlushSearchTreeDone ==
    \E t \in BagToSet(tasks) :
      /\ TaskReady(t, "FlushSearchTree")
      /\ IF current_mode.name # "Flushing"
            \/ t.request_ref \notin DOMAIN flush_requests
            \/ ~flush_requests[t.request_ref].butcher_done
            \/ flush_requests[t.request_ref].search_trees_pending_count = 0
         THEN PanicStep
         ELSE LET q == flush_requests[t.request_ref] IN
              /\ IF q.search_trees_pending_count = 1
                 THEN flush_requests' = Remove(flush_requests, t.request_ref)
                 ELSE flush_requests' = [flush_requests EXCEPT
                          ![t.request_ref].search_trees_pending_count = @ - 1]
              /\ tasks' = Pop(tasks, t)
              /\ tasks_count' = tasks_count - 1
              /\ UNCHANGED <<pc, current_mode, search_trees, search_tree_refs,
                             info_requests, lookup_requests, lookup_range_requests,
                             bg_tasks, bg_tasks_count, merge_search_trees_tasks_count,
                             env_vars, hist_vars>>
      /\ UNCHANGED <<merger_vars, load_vars, iter_cache_vars>>

\* ----------------------------------------------------------------- compaction

\* mutant: only the first of the two merged trees leaves the set
MergedAwayFirst(t) == {t.tree}

\* search_trees.remove(done.search_tree_a_ref), search_trees.remove(done.search_tree_b_ref)
MergedAway(t) == {t.tree, t.tree_b}

\* TaskDone::MergeSearchTrees(done)
HandleMergeSearchTreesDone ==
    \E t \in BagToSet(bg_tasks) :
      /\ BgTaskReady(t, "MergeSearchTrees")
      /\ IF t.tree \notin search_trees \/ t.tree_b \notin search_trees \/ t.tree = t.tree_b
         THEN PanicStep
         ELSE \E data \in {MergeTreesData(t.tree, t.tree_b)} :
              LET search_tree_ref == NewTreeRef
                  tree_set == (search_trees \ MergedAway(t)) \cup {search_tree_ref}
                  m == MaybeMergeSearchTrees(
                           BinPush(search_tree_refs, [items_count |-> CacheLen(data),
                                                      search_tree_ref |-> search_tree_ref]),
                           tree_set)
              IN IF m.panic
                 THEN PanicStep
                 ELSE /\ trees' = Insert(trees, search_tree_ref,
                                      [data |-> data, mode |-> "Regular", flushed |-> FALSE,
                                       origin |-> "merge", late_for |-> 0])
                      /\ search_trees' = tree_set
                      /\ search_tree_refs' = m.refs
                      /\ tasks' = Push(tasks,
                             {[TreeTask EXCEPT !.kind = "DemolishSearchTree", !.tree = s]
                              : s \in MergedAway(t)})
                      /\ tasks_count' = tasks_count + Cardinality(MergedAway(t))
                      /\ bg_tasks' = Push(Pop(bg_tasks, t), m.pushed)
                      /\ bg_tasks_count' = bg_tasks_count - 1 + Cardinality(m.pushed)
                      /\ merge_search_trees_tasks_count' =
                             merge_search_trees_tasks_count + Cardinality(m.pushed) - 1
                      /\ UNCHANGED <<pc, current_mode, info_requests, lookup_requests,
                                     lookup_range_requests, flush_requests, request_queue,
                                     flush_cache_chan, memcache, version_counter, clients,
                                     hist_vars>>
      /\ UNCHANGED <<merger_vars, load_vars, iter_cache_vars>>

\* mutant: the event loop is entered without a pop from the TreeSizeHeap
StartupMergesNone(refs, pushed) == [refs |-> refs, pushed |-> pushed, panic |-> FALSE]

\* the loop before the event loop: start every merge the loaded trees allow
RECURSIVE StartupMerges(_, _)
StartupMerges(refs, pushed) ==
    LET m == MaybeMergeSearchTrees(refs, search_trees) IN
    IF ~m.some THEN [refs |-> refs, pushed |-> pushed, panic |-> FALSE]
    ELSE IF m.panic THEN [refs |-> refs, pushed |-> pushed, panic |-> TRUE]
    ELSE StartupMerges(m.refs, pushed \cup m.pushed)

StartupCompaction ==
    /\ pc = "startup"
    /\ LET r == StartupMerges(search_tree_refs, {}) IN
       IF r.panic
       THEN PanicStep
       ELSE /\ pc' = "loop"
            /\ search_tree_refs' = r.refs
            /\ bg_tasks' = Push(bg_tasks, r.pushed)
            /\ bg_tasks_count' = bg_tasks_count + Cardinality(r.pushed)
            /\ merge_search_trees_tasks_count' =
                   merge_search_trees_tasks_count + Cardinality(r.pushed)
            /\ UNCHANGED <<current_mode, search_trees, info_requests, lookup_requests,
                           lookup_range_requests, flush_requests, tasks, tasks_count,
                           env_vars, hist_vars>>
    /\ UNCHANGED <<merger_vars, load_vars, iter_cache_vars>>

\* ------------------------------------------------------ initial states, Next

\* the locals of load and of busyloop when the given trees have been found on
\* the wheels: they are in the tree set and queued in the BinMerger, every table
\* and counter is empty
FreshLocals(loaded, ops) ==
    /\ current_mode = ModeRegular
    /\ search_trees = DOMAIN loaded
    /\ search_tree_refs = [i \in DOMAIN loaded |->
                              [items_count |-> CacheLen(loaded[i].data),
                               search_tree_ref |-> i]]
    /\ info_requests = <<>>
    /\ lookup_requests = <<>>
    /\ lookup_range_requests = <<>>
    /\ flush_requests = <<>>
    /\ tasks = EmptyBag
    /\ tasks_count = 0
    /\ bg_tasks = EmptyBag
    /\ bg_tasks_count = 0
    /\ merge_search_trees_tasks_count = 0
    /\ request_queue = <<>>
    /\ flush_cache_chan = <<>>
    /\ trees = loaded
    /\ memcache = EmptyCache
    /\ version_counter = 0
    /\ clients = [c \in Clients |-> ClientIdle]
    /\ ops_left = ops
    /\ write_log = <<>>
    /\ acked = [k \in StoreKeys |-> 0]
    /\ last_seen = [k \in StoreKeys |-> 0]
    /\ max_seen = [k \in StoreKeys |-> 0]
    /\ flush_accepted = 0
    /\ flushed_sent = 0

\* busyloop is entered with what load has made of the block stream
ManagerFresh(loaded, ops) ==
    /\ pc = "startup"
    /\ FreshLocals(loaded, ops)
    /\ block_refs_rx = <<>>
    /\ blocks_total = 0

MergerIdle ==
    /\ iters = <<>>
    /\ advance_head_idx = 0
    /\ merger_pc = "idle"
    /\ merger_last = [result |-> "NoCall", item |-> NoItem, deprecated |-> <<>>]
    /\ merger_out = <<>>
    /\ merger_inputs = <<>>

\* no cache iteration task
IterCacheIdle ==
    /\ iter_cache = <<>>
    /\ iter_range = <<>>
    /\ iter_items = <<>>
    /\ iter_items_tx = <<>>
    /\ iter_items_rx = "alive"
    /\ iter_repaid = 0
    /\ iter_pc = "idle"
    /\ iter_result = "Pending"

\* an empty store
ManagerInit == ManagerFresh(<<>>, MaxOps) /\ MergerIdle /\ IterCacheIdle

ClientNext ==
    \/ ClientInfo
    \/ ClientInsert
    \/ ClientLookup
    \/ ClientLookupRange
    \/ ClientRemove
    \/ ClientFlush

RequestNext ==
    \/ HandleRequestInfo
    \/ HandleRequestInsert
    \/ HandleRequestLookup
    \/ HandleRequestLookupRange
    \/ HandleRequestRemove
    \/ HandleRequestFlushAll

TaskDoneNext ==
    \/ HandleInfoDone
    \/ HandleInsertButcherDone
    \/ HandleLookupButcherDone
    \/ HandleLookupSearchTreeDone
    \/ HandleLookupRangeButcherDone
    \/ HandleLookupRangeSearchTreeDone
    \/ HandleMergeLookupRangeSuccess
    \/ HandleMergeLookupRangeDeprecated
    \/ HandleRemoveButcherDone
    \/ HandleFlushButcherDone
    \/ HandleFlushSearchTreeDone
    \/ HandleMergeSearchTreesDone
    \/ HandleDemolishSearchTreeDone
    \/ HandleRetrieveValueSuccess
    \/ HandleRetrieveValueDeprecated

CollaboratorNext ==
    \/ ButcherInsert
    \/ ButcherRemove
    \/ ButcherLookup
    \/ ButcherInfo
    \/ ButcherLookupRange
    \/ ButcherFlush
    \/ ButcherFlushAck
    \/ SearchTreeFlush
    \/ RetrieveValueRun
    \/ MergeLookupRangeRun

ManagerNext ==
    \/ StartupCompaction
    \/ FlushingDone
    \/ HandleFlushCache
    \/ RequestNext
    \/ TaskDoneNext
    \/ CollaboratorNext
    \/ ClientNext

Next == ManagerNext

Spec == ManagerInit /\ [][Next]_vars

\* one client writes, every client looks up; the Manager never leaves Regular
\* mode, and there is room for two writes and two lookups in a run
KVInit == ManagerFresh(<<>>, MaxKVOps) /\ MergerIdle /\ IterCacheIdle

\* client 1 is the writer
WriterInsert ==
    \E k \in StoreKeys : version_counter < MaxKVWrites /\ ClientSend(1, "insert", k)
WriterRemove ==
    \E k \in StoreKeys : version_counter < MaxKVWrites /\ ClientSend(1, "remove", k)
ReaderLookup ==
    \E c \in Clients, k \in StoreKeys : ClientSend(c, "lookup", k)

KVNext ==
    \/ StartupCompaction
    \/ WriterInsert
    \/ WriterRemove
    \/ ReaderLookup
    \/ HandleRequestInsert
    \/ HandleRequestRemove
    \/ HandleRequestLookup
    \/ HandleFlushCache
    \/ ButcherInsert
    \/ ButcherRemove
    \/ ButcherLookup
    \/ RetrieveValueRun
    \/ HandleInsertButcherDone
    \/ HandleRemoveButcherDone
    \/ HandleLookupButcherDone
    \/ HandleLookupSearchTreeDone
    \/ HandleMergeSearchTreesDone
    \/ HandleDemolishSearchTreeDone
    \/ HandleRetrieveValueSuccess
    \/ HandleRetrieveValueDeprecated

SpecKV == KVInit /\ [][KVNext]_vars

\* a store restarted over up to MaxTrees trees and left alone: no client calls,
\* no ButcherFlush; tree i holds a non-empty set of keys, written after tree i - 1
LoadedTree(i, keys) ==
    [data |-> [k \in 1..MaxTreeKey |->
                  IF k \in keys THEN [version |-> i, cell |-> "Value"] ELSE NoCell],
     mode |-> "Regular", flushed |-> FALSE, origin |-> "load", late_for |-> 0]

CompactInit ==
    /\ \E n \in 0..MaxTrees :
         \E keys \in [1..n -> (SUBSET (1..MaxTreeKey)) \ {{}}] :
            ManagerFresh([i \in 1..n |-> LoadedTree(i, keys[i])], 0)
    /\ MergerIdle
    /\ IterCacheIdle

CompactNext ==
    \/ StartupCompaction
    \/ HandleMergeSearchTreesDone
    \/ HandleDemolishSearchTreeDone

\* the loop takes a ready task result whenever one is there.  The weak fairness
\* of HandleMergeSearchTreesDone is written with its enabling condition spelled
\* out: the handler is enabled exactly when a merge result is ready
MergeResultReady == \E t \in BagToSet(bg_tasks) : BgTaskReady(t, "MergeSearchTrees")

CompactFairness ==
    /\ WF_vars(StartupCompaction)
    /\ WF_vars(HandleDemolishSearchTreeDone)
    /\ ([]<>(~MergeResultReady) \/ []<><<HandleMergeSearchTreesDone>>_vars)

SpecCompact == CompactInit /\ [][CompactNext]_vars /\ CompactFairness

\* ------------------------------------------------- the end of the Manager loop
\* busyloop ends with `return Ok(())` when one of its two channels is depleted
\* and with `return Err(Fatal(Error::Task(..)))` when a task result is an Err.
\* Returning drops `state` with both receivers, the tracker tables and the task
\* futures, and with them every reply sender the Manager held.

\* every client handle is dropped, those inside a call with the call's future:
\* what was sent before is still received, then the stream ends
CloseRequests ==
    /\ Running
    /\ \A i \in DOMAIN request_queue : request_queue[i] # ClosedRequest
    /\ request_queue' = Append(request_queue, ClosedRequest)
    /\ ops_left' = 0
    /\ clients' = [c \in Clients |->
                      IF clients[c].pc = "wait"
                      THEN [clients[c] EXCEPT !.pc = "dropped"]
                      ELSE clients[c]]
    /\ UNCHANGED <<loop_vars, flush_cache_chan, trees, memcache, version_counter,
                   write_log, acked, last_seen, max_seen, flush_accepted, flushed_sent>>
    /\ UNCHANGED <<merger_vars, load_vars, iter_cache_vars>>

\* the butcher's handle is dropped: the butcher is gone
CloseFlushCache ==
    /\ Running
    /\ flush_cache_chan = <<>>
    /\ \A t \in BagToSet(tasks) : t.stage # "handoff"
    /\ flush_cache_chan' = <<ClosedCache>>
    /\ UNCHANGED <<loop_vars, request_queue, trees, memcache, version_counter, clients,
                   hist_vars>>
    /\ UNCHANGED <<merger_vars, load_vars, iter_cache_vars>>

\* what busyloop leaves behind when it returns
LoopReturns(result) ==
    /\ pc' = result
    /\ UNCHANGED <<current_mode, search_trees, search_tree_refs, info_requests,
                   lookup_requests, lookup_range_requests, flush_requests,
                   bg_tasks_count, merge_search_trees_tasks_count, env_vars, hist_vars>>

\* Event::Request(None)
HandleRequestNone ==
    /\ RequestReady("closed")
    /\ LoopReturns("returned")
    /\ UNCHANGED <<tasks, tasks_count, bg_tasks>>
    /\ UNCHANGED <<merger_vars, load_vars, iter_cache_vars>>

\* Event::FlushCache(None)
HandleFlushCacheNone ==
    /\ Running
    /\ "flush_cache" \in PolledSources
    /\ flush_cache_chan = <<ClosedCache>>
    /\ LoopReturns("returned")
    /\ UNCHANGED <<tasks, tasks_count, bg_tasks>>
    /\ UNCHANGED <<merger_vars, load_vars, iter_cache_vars>>

\* tasks that read an immutable tree are pushed with their result decided
TreeTaskKinds ==
    {"InfoSearchTree", "LookupSearchTree", "LookupRangeSearchTree", "MergeSearchTrees",
     "DemolishSearchTree"}

\* a task's future resolves to Err(task::Error) in place of its TaskDone
Failed(t) == [t EXCEPT !.kind = "Err", !.stage = "done", !.outcome = t.kind]
MayFail(t) == t.kind # "Err" /\ (t.stage = "sent" \/ t.kind \in TreeTaskKinds)

TaskFails ==
    \E t \in BagToSet(tasks) :
      /\ Running
      /\ MayFail(t)
      /\ tasks' = Restage(tasks, t, Failed(t))
      /\ UNCHANGED <<loop_vars_but_tasks, env_vars, hist_vars>>
      /\ UNCHANGED <<merger_vars, load_vars, iter_cache_vars>>

BgTaskFails ==
    \E t \in BagToSet(bg_tasks) :
      /\ Running
      /\ MayFail(t)
      /\ bg_tasks' = Restage(bg_tasks, t, Failed(t))
      /\ UNCHANGED <<pc, current_mode, search_trees, search_tree_refs, info_requests,
                     lookup_requests, lookup_range_requests, flush_requests, tasks,
                     tasks_count, bg_tasks_count, merge_search_trees_tasks_count,
                     env_vars, hist_vars>>
      /\ UNCHANGED <<merger_vars, load_vars, iter_cache_vars>>

\* Event::Task(Err(error)), the error coming from `tasks`
HandleTaskErr ==
    \E t \in BagToSet(tasks) :
      /\ TaskReady(t, "Err")
      /\ tasks' = Pop(tasks, t)
      /\ tasks_count' = tasks_count - 1
      /\ LoopReturns("failed")
      /\ UNCHANGED bg_tasks
      /\ UNCHANGED <<merger_vars, load_vars, iter_cache_vars>>

\* Event::Task(Err(error)), the error coming from `bg_tasks_rx`
HandleBgTaskErr ==
    \E t \in BagToSet(bg_tasks) :
      /\ BgTaskReady(t, "Err")
      /\ pc' = "failed"
      /\ bg_tasks' = Pop(bg_tasks, t)
      /\ bg_tasks_count' = bg_tasks_count - 1
      /\ UNCHANGED <<current_mode, search_trees, search_tree_refs, info_requests,
                     lookup_requests, lookup_range_requests, flush_requests, tasks,
                     tasks_count, merge_search_trees_tasks_count, env_vars, hist_vars>>
      /\ UNCHANGED <<merger_vars, load_vars, iter_cache_vars>>

\* ---- the client side of a call, once the Manager is gone (impl Pid)

\* the receivers and every reply sender are dropped
ManagerGone == pc \in {"returned", "failed", "panicked"}

NoProcError == [version |-> 0, cell |-> "NoProcError"]

\* mutant: a cancelled reply channel ends the call with NoProcError
PidOnCanceledReturns(c) == [clients[c] EXCEPT !.pc = "idle", !.reply = NoProcError]

\* `Err(oneshot::Canceled) => ()`: go round the loop, to send the request again
PidOnCanceled(c) == [clients[c] EXCEPT !.pc = "resend"]

\* `reply_rx.await` of a call in progress yields Err(oneshot::Canceled)
ClientCanceled ==
    \E c \in Clients :
      /\ ManagerGone
      /\ clients[c].pc = "wait"
      /\ clients' = [clients EXCEPT ![c] = PidOnCanceled(c)]
      /\ UNCHANGED <<loop_vars, request_queue, flush_cache_chan, trees, memcache,
                     version_counter, hist_vars>>
      /\ UNCHANGED <<merger_vars, load_vars, iter_cache_vars>>

\* `request_tx.send(..).await` of the next round fails: the receiver is dropped
ClientResendFails ==
    \E c \in Clients :
      /\ ManagerGone
      /\ clients[c].pc = "resend"
      /\ clients' = Deliver(c, [reply |-> NoProcError])
      /\ UNCHANGED <<loop_vars, request_queue, flush_cache_chan, trees, memcache,
                     version_counter, hist_vars>>
      /\ UNCHANGED <<merger_vars, load_vars, iter_cache_vars>>

\* a call made when the Manager is gone: its first send fails
ClientCallFails ==
    \E c \in Clients, op \in {"info", "insert", "lookup", "lookup_range", "remove", "flush"} :
      /\ ManagerGone
      /\ clients[c].pc = "idle"
      /\ ops_left > 0
      /\ ops_left' = ops_left - 1
      /\ clients' = [clients EXCEPT ![c] =
                        [ClientIdle EXCEPT !.op = op, !.reply = NoProcError]]
      /\ UNCHANGED <<loop_vars, request_queue, flush_cache_chan, trees, memcache,
                     version_counter, write_log, acked, last_seen, max_seen,
                     flush_accepted, flushed_sent>>
      /\ UNCHANGED <<merger_vars, load_vars, iter_cache_vars>>

\* two calls on an empty store that may lose its Manager at any moment
StopInit == ManagerFresh(<<>>, MaxStopOps) /\ MergerIdle /\ IterCacheIdle

\* what the Manager and its collaborators do of their own accord, but for a
\* finished compaction
StopSystemNext ==
    \/ StartupCompaction
    \/ RequestNext
    \/ FlushingDone
    \/ HandleFlushCache
    \/ HandleInfoDone
    \/ HandleInsertButcherDone
    \/ HandleLookupButcherDone
    \/ HandleLookupSearchTreeDone
    \/ HandleLookupRangeButcherDone
    \/ HandleLookupRangeSearchTreeDone
    \/ HandleMergeLookupRangeSuccess
    \/ HandleRemoveButcherDone
    \/ HandleFlushButcherDone
    \/ HandleFlushSearchTreeDone
    \/ HandleDemolishSearchTreeDone
    \/ HandleRetrieveValueSuccess
    \/ CollaboratorNext
    \/ HandleRequestNone
    \/ HandleFlushCacheNone
    \/ HandleTaskErr
    \/ HandleBgTaskErr

StopNext ==
    \/ ClientNext
    \/ StopSystemNext
    \/ HandleMergeSearchTreesDone
    \/ CloseRequests
    \/ CloseFlushCache
    \/ TaskFails
    \/ BgTaskFails
    \/ ClientCanceled
    \/ ClientResendFails
    \/ ClientCallFails

\* the select! and the executor get round to whatever stays ready
StopFairness ==
    /\ WF_vars(StopSystemNext)
    /\ ([]<>(~MergeResultReady) \/ []<><<HandleMergeSearchTreesDone>>_vars)

SpecStop == StopInit /\ [][StopNext]_vars /\ StopFairness

\* ------------------------------------------------------- a store being flushed
\* a store restarted over up to MaxTrees trees takes calls while it compacts:
\* client 1 writes and flushes, the last client looks up keys and ranges
FlushInit ==
    /\ \E n \in 0..MaxTrees :
          ManagerFresh([i \in 1..n |-> LoadedTree(i, 1..MaxTreeKey)], MaxFlushOps)
    /\ MergerIdle
    /\ IterCacheIdle

FlushClientNext ==
    \/ WriterInsert
    \/ ClientSend(1, "flush", 0)
    \/ \E k \in StoreKeys : ClientSend(NumClients, "lookup", k)
    \/ ClientSend(NumClients, "lookup_range", 0)

\* what the Manager and its collaborators do of their own accord, but for a
\* finished compaction
FlushSystemNext ==
    \/ StartupCompaction
    \/ FlushingDone
    \/ HandleFlushCache
    \/ HandleRequestInsert
    \/ HandleRequestLookup
    \/ HandleRequestLookupRange
    \/ HandleRequestFlushAll
    \/ HandleInsertButcherDone
    \/ HandleLookupButcherDone
    \/ HandleLookupSearchTreeDone
    \/ HandleLookupRangeButcherDone
    \/ HandleLookupRangeSearchTreeDone
    \/ HandleMergeLookupRangeSuccess
    \/ HandleMergeLookupRangeDeprecated
    \/ HandleFlushButcherDone
    \/ HandleFlushSearchTreeDone
    \/ HandleDemolishSearchTreeDone
    \/ HandleRetrieveValueSuccess
    \/ HandleRetrieveValueDeprecated
    \/ ButcherInsert
    \/ ButcherLookup
    \/ ButcherLookupRange
    \/ ButcherFlush
    \/ ButcherFlushAck
    \/ SearchTreeFlush
    \/ RetrieveValueRun
    \/ MergeLookupRangeRun

FlushNext ==
    \/ FlushClientNext
    \/ FlushSystemNext
    \/ HandleMergeSearchTreesDone

\* fair scheduling, and every dispatched task completes: the select!, the
\* executor and the collaborators get round to whatever stays ready
FlushFairness ==
    /\ WF_vars(FlushSystemNext)
    /\ ([]<>(~MergeResultReady) \/ []<><<HandleMergeSearchTreesDone>>_vars)

SpecFlush == FlushInit /\ [][FlushNext]_vars /\ FlushFairness

\* ================================================================== fn load

\* blocks in the stream of the wheels, before its end
MaxBlocks == 3

\* wheels::IterBlocksItem::NoMoreBlocks
NoMoreBlocks == [type |-> "NoMoreBlocks", keys |-> {}]

\* wheels::IterBlocksItem::Block as block_deserialize_iter sees it: the root of a
\* tree with the given keys (tree_entries_count of them), a leaf, a block
\* with another magic, a block that fails to decode otherwise
Blocks ==
    {[type |-> "Root", keys |-> ks] : ks \in (SUBSET (1..MaxTreeKey)) \ {{}}}
    \cup {[type |-> ty, keys |-> {}] : ty \in {"Leaf", "InvalidBlockMagic", "DeserializeBlock"}}

\* mutant: a block with another magic ends the load like any decode error
BlockOutcomeMagicFatal(block) ==
    CASE block.type \in {"InvalidBlockMagic", "DeserializeBlock"} -> "fatal"
      [] block.type = "Root" -> "root"
      [] OTHER -> "skip"

\* `match storage::block_deserialize_iter(..)` and `match ..node_type` of load
BlockOutcome(block) ==
    CASE block.type = "InvalidBlockMagic" -> "skip"
      [] block.type = "DeserializeBlock" -> "fatal"
      [] block.type = "Root" -> "root"
      [] OTHER -> "skip"

\* the Manager is started on a store whose block stream holds up to MaxBlocks
\* blocks and then either ends with NoMoreBlocks or is dropped by the wheels
LoadInit ==
    /\ \E n \in 0..MaxBlocks :
         \E blocks \in [1..n -> Blocks], dropped \in BOOLEAN :
            block_refs_rx = IF dropped THEN blocks ELSE Append(blocks, NoMoreBlocks)
    /\ blocks_total = 0
    /\ pc = "load"
    /\ FreshLocals(<<>>, 0)
    /\ MergerIdle
    /\ IterCacheIdle

\* state.wheels_pid.iter_blocks().await succeeds
LoadIterBlocks ==
    /\ pc = "load"
    /\ pc' = "scan"
    /\ UNCHANGED <<current_mode, search_trees, search_tree_refs, info_requests,
                   lookup_requests, lookup_range_requests, flush_requests, tasks,
                   tasks_count, bg_tasks, bg_tasks_count,
                   merge_search_trees_tasks_count, env_vars, hist_vars>>
    /\ UNCHANGED <<merger_vars, load_vars, iter_cache_vars>>

\* iter_blocks() fails: Fatal(Error::WheelsIterBlocks)
LoadIterBlocksErr ==
    /\ pc = "load"
    /\ pc' = "failed"
    /\ UNCHANGED <<current_mode, search_trees, search_tree_refs, info_requests,
                   lookup_requests, lookup_range_requests, flush_requests, tasks,
                   tasks_count, bg_tasks, bg_tasks_count,
                   merge_search_trees_tasks_count, env_vars, hist_vars>>
    /\ UNCHANGED <<merger_vars, load_vars, iter_cache_vars>>

\* block_refs_rx.next() is None: Fatal(Error::WheelsIterBlocksRxDropped)
LoadRxDropped ==
    /\ pc = "scan"
    /\ blocks_total = Len(block_refs_rx)
    /\ pc' = "failed"
    /\ UNCHANGED <<current_mode, search_trees, search_tree_refs, info_requests,
                   lookup_requests, lookup_range_requests, flush_requests, tasks,
                   tasks_count, bg_tasks, bg_tasks_count,
                   merge_search_trees_tasks_count, env_vars, hist_vars>>
    /\ UNCHANGED <<merger_vars, load_vars, iter_cache_vars>>

\* Some(IterBlocksItem::Block { .. }): one turn of load's loop
LoadBlock ==
    /\ pc = "scan"
    /\ blocks_total < Len(block_refs_rx)
    /\ block_refs_rx[blocks_total + 1] # NoMoreBlocks
    /\ blocks_total' = blocks_total + 1
    /\ LET block == block_refs_rx[blocks_total + 1]
           search_tree_ref == NewTreeRef
       IN CASE BlockOutcome(block) = "fatal" ->
                 /\ pc' = "failed"
                 /\ UNCHANGED <<search_trees, search_tree_refs, trees>>
            [] BlockOutcome(block) = "root" ->
                 /\ trees' = Insert(trees, search_tree_ref,
                                    LoadedTree(search_tree_ref, block.keys))
                 /\ search_trees' = search_trees \cup {search_tree_ref}
                 /\ search_tree_refs' =
                        BinPush(search_tree_refs,
                                [items_count |-> Cardinality(block.keys),
                                 search_tree_ref |-> search_tree_ref])
                 /\ UNCHANGED pc
            [] OTHER -> UNCHANGED <<pc, search_trees, search_tree_refs, trees>>
    /\ UNCHANGED <<current_mode, info_requests, lookup_requests, lookup_range_requests,
                   flush_requests, tasks, tasks_count, bg_tasks, bg_tasks_count,
                   merge_search_trees_tasks_count, request_queue, flush_cache_chan,
                   memcache, version_counter, clients, hist_vars>>
    /\ UNCHANGED <<merger_vars, block_refs_rx, iter_cache_vars>>

\* Some(IterBlocksItem::NoMoreBlocks): break, and busyloop is called
LoadNoMoreBlocks ==
    /\ pc = "scan"
    /\ blocks_total < Len(block_refs_rx)
    /\ block_refs_rx[blocks_total + 1] = NoMoreBlocks
    /\ pc' = "startup"
    /\ UNCHANGED <<current_mode, search_trees, search_tree_refs, info_requests,
                   lookup_requests, lookup_range_requests, flush_requests, tasks,
                   tasks_count, bg_tasks, bg_tasks_count,
                   merge_search_trees_tasks_count, env_vars, hist_vars>>
    /\ UNCHANGED <<merger_vars, load_vars, iter_cache_vars>>

\* load, then the loop at work on the trees loaded
LoadNext ==
    \/ LoadIterBlocks
    \/ LoadIterBlocksErr
    \/ LoadRxDropped
    \/ LoadBlock
    \/ LoadNoMoreBlocks
    \/ StartupCompaction
    \/ HandleMergeSearchTreesDone
    \/ HandleDemolishSearchTreeDone

SpecLoad == LoadInit /\ [][LoadNext]_vars

\* ---------------------------------------------------- merger: inputs, action

\* the items of stream s, in increasing key order, for the cells chosen in c
RECURSIVE StreamItems(_, _, _, _, _)
StreamItems(s, c, ver, bf, k) ==
    IF k > MaxKey
    THEN <<>>
    ELSE (IF <<s, k>> \in c
          THEN <<MsgItem(k, ver[<<s, k>>], s)>> \o (IF bf THEN <<MsgBlockFinish>> ELSE <<>>)
          ELSE <<>>)
         \o StreamItems(s, c, ver, bf, k + 1)

\* a stream as its producer sends it: items, block markers, then NoMore, unless
\* the producer is lost before it gets to send NoMore
StreamOf(s, c, ver, bf, lost) ==
    StreamItems(s, c, ver, bf, 1) \o (IF lost = s THEN <<>> ELSE <<MsgNoMore>>)

NoCall == [result |-> "NoCall", item |-> NoItem, deprecated |-> <<>>]

\* ItersMerger::new over MaxIters freshly created KeyValuesIter; a source without
\* items sends NoMore alone
MergerInit ==
    \E c \in SUBSET ((1..MaxIters) \X Keys) :
      /\ Cardinality(c) <= MaxItems
      /\ \E ver \in [c -> Versions], bf \in BOOLEAN, lost \in 0..MaxIters :
           /\ bf => lost = 0
           /\ merger_inputs = [s \in 1..MaxIters |-> StreamOf(s, c, ver, bf, lost)]
           /\ iters = [s \in 1..MaxIters |-> KeyValuesIterNew(StreamOf(s, c, ver, bf, lost))]
           /\ advance_head_idx = 0
           /\ merger_pc = "ready"
           /\ merger_last = NoCall
           /\ merger_out = <<>>
           /\ ManagerFresh(<<>>, 0)
           /\ IterCacheIdle

\* one call of next_with_deprecated (next() is the same call with a no-op callback)
MergerNext ==
    /\ merger_pc = "ready"
    /\ IF advance_head_idx # 0
       THEN \* assert!(self.advance_head_idx.is_none()) fails
            /\ merger_pc' = "panicked"
            /\ UNCHANGED <<iters, advance_head_idx, merger_last, merger_out, merger_inputs>>
            /\ UNCHANGED <<manager_vars, load_vars, iter_cache_vars>>
       ELSE LET r == NextWithDeprecated(iters, advance_head_idx) IN
            /\ iters' = r.iters
            /\ advance_head_idx' = r.advance_head_idx
            /\ merger_last' = [result |-> r.result, item |-> r.item, deprecated |-> r.deprecated]
            /\ merger_out' = IF r.result = "Some" THEN Append(merger_out, r.item) ELSE merger_out
            /\ UNCHANGED <<merger_pc, merger_inputs>>
            /\ UNCHANGED <<manager_vars, load_vars, iter_cache_vars>>

SpecMerger == MergerInit /\ [][MergerNext]_vars

\* ======================================= search_tree/task/iter_cache.rs

\* a bound of SearchRangeBounds
Unbounded == [kind |-> "Unbounded", key |-> 0]
Included(k) == [kind |-> "Included", key |-> k]
Excluded(k) == [kind |-> "Excluded", key |-> k]

CacheBounds == {Unbounded} \cup {Included(k) : k \in 1..MaxCacheKey}
                           \cup {Excluded(k) : k \in 1..MaxCacheKey}

\* key lies within the two bounds of the range
InBounds(key, range) ==
    /\ CASE range.lo.kind = "Included" -> range.lo.key <= key
         [] range.lo.kind = "Excluded" -> range.lo.key < key
         [] OTHER -> TRUE
    /\ CASE range.hi.kind = "Included" -> key <= range.hi.key
         [] range.hi.kind = "Excluded" -> key < range.hi.key
         [] OTHER -> TRUE

\* the ranges a caller can ask for: the start is not past the end
CacheRanges ==
    {r \in [lo : CacheBounds, hi : CacheBounds] :
        r.lo.kind # "Unbounded" /\ r.hi.kind # "Unbounded" =>
            /\ r.lo.key <= r.hi.key
            /\ ~(r.lo.key = r.hi.key /\ r.lo.kind = "Excluded" /\ r.hi.kind = "Excluded")}

\* the cells a cache holds for a key
CacheCells == {NoCell, [version |-> 1, cell |-> "Value"], [version |-> 2, cell |-> "Tombstone"]}

\* `kv::KeyValuePair { key: kv_pair.key, value_cell: kv_pair.value_cell.into() }`:
\* the pair pushed for an entry carries the entry's key, the version of its
\* cell and whether the cell is a value or a tombstone
KeyValuePairOf(key, cell) == [key |-> key, version |-> cell.version, cell |-> cell.cell]

\* mutant: the job collects the cache's entries whatever the range
RECURSIVE CacheRangeAll(_, _, _)
CacheRangeAll(cache, range, k) ==
    IF k > MaxCacheKey
    THEN <<>>
    ELSE (IF cache[k].version # 0
          THEN <<KeyValuePairOf(k, cache[k])>> ELSE <<>>)
         \o CacheRangeAll(cache, range, k + 1)

\* `for kv_pair in cache.range(range) { items.push(..) }`, from key k on: the
\* ordered map is walked in key order and the entries within the range pushed
RECURSIVE CacheRange(_, _, _)
CacheRange(cache, range, k) ==
    IF k > MaxCacheKey
    THEN <<>>
    ELSE (IF cache[k].version # 0 /\ InBounds(k, range)
          THEN <<KeyValuePairOf(k, cache[k])>> ELSE <<>>)
         \o CacheRange(cache, range, k + 1)

\* KeyValueRef::Item { key, value_cell } made of a drained pair
ItemOf(key_value) == [type |-> "Item", item |-> key_value]

\* a task over some cache and some range, its channel not yet closed
IterCacheInit ==
    /\ iter_cache \in [1..MaxCacheKey -> CacheCells]
    /\ iter_range \in CacheRanges
    /\ iter_items = <<>>
    /\ iter_items_tx = <<>>
    /\ iter_items_rx = "alive"
    /\ iter_repaid = 0
    /\ iter_pc = "spawn"
    /\ iter_result = "Pending"
    /\ ManagerFresh(<<>>, 0)
    /\ MergerIdle

\* thread_pool.spawn(SearchTreeIterCache(..)).await gives the job's output
IterCacheJob ==
    /\ iter_pc = "spawn"
    /\ iter_items' = CacheRange(iter_cache, iter_range, 1)
    /\ iter_pc' = "send"
    /\ UNCHANGED <<iter_cache, iter_range, iter_items_tx, iter_items_rx, iter_repaid,
                   iter_result>>
    /\ UNCHANGED <<merger_vars, load_vars, manager_vars>>

\* the spawn fails: `.map_err(|ThreadPoolGone| Error::ThreadPoolGone)?`
IterCacheThreadPoolGone ==
    /\ iter_pc = "spawn"
    /\ iter_pc' = "done"
    /\ iter_result' = "ThreadPoolGone"
    /\ UNCHANGED <<iter_cache, iter_range, iter_items, iter_items_tx, iter_items_rx,
                   iter_repaid>>
    /\ UNCHANGED <<merger_vars, load_vars, manager_vars>>

\* send_all: the next drained pair goes through the channel as an Item
IterCacheSendItem ==
    /\ iter_pc = "send"
    /\ iter_items # <<>>
    /\ iter_items_rx = "alive"
    /\ iter_items_tx' = Append(iter_items_tx, ItemOf(Head(iter_items)))
    /\ iter_items' = Tail(iter_items)
    /\ UNCHANGED <<iter_cache, iter_range, iter_items_rx, iter_repaid, iter_pc, iter_result>>
    /\ UNCHANGED <<merger_vars, load_vars, manager_vars>>

\* send_all finds the receiver gone: `return Ok(Done)`
IterCacheSendErr ==
    /\ iter_pc = "send"
    /\ iter_items # <<>>
    /\ iter_items_rx = "dropped"
    /\ iter_pc' = "done"
    /\ iter_result' = "Ok"
    /\ UNCHANGED <<iter_cache, iter_range, iter_items, iter_items_tx, iter_items_rx,
                   iter_repaid>>
    /\ UNCHANGED <<merger_vars, load_vars, manager_vars>>

\* send_all is through: `repay_iter_items_tx.send(iter_items_tx).ok(); Ok(Done)`
IterCacheRepay ==
    /\ iter_pc = "send"
    /\ iter_items = <<>>
    /\ iter_repaid' = iter_repaid + 1
    /\ iter_pc' = "done"
    /\ iter_result' = "Ok"
    /\ UNCHANGED <<iter_cache, iter_range, iter_items, iter_items_tx, iter_items_rx>>
    /\ UNCHANGED <<merger_vars, load_vars, manager_vars>>

\* the one who asked for the iteration drops the receiving end
IterItemsRxDropped ==
    /\ iter_pc \in {"spawn", "send"}
    /\ iter_items_rx = "alive"
    /\ iter_items_rx' = "dropped"
    /\ UNCHANGED <<iter_cache, iter_range, iter_items, iter_items_tx, iter_repaid,
                   iter_pc, iter_result>>
    /\ UNCHANGED <<merger_vars, load_vars, manager_vars>>

IterCacheNext ==
    \/ IterCacheJob
    \/ IterCacheThreadPoolGone
    \/ IterCacheSendItem
    \/ IterCacheSendErr
    \/ IterCacheRepay
    \/ IterItemsRxDropped

SpecIterCache == IterCacheInit /\ [][IterCacheNext]_vars

\* ------------------------------------------------------- merger: properties

Range(f) == {f[i] : i \in DOMAIN f}

\* every item of every input stream
InputItems ==
    UNION {{merger_inputs[s][i].item : i \in {j \in DOMAIN merger_inputs[s] :
                                             merger_inputs[s][j].type = "Item"}}
           : s \in DOMAIN merger_inputs}

InputKeys == {x.key : x \in InputItems}

\* the item a stream will offer next: its front item, else the first item still queued
PendingItem(it) ==
    IF it.iter_state = "FrontItem"
    THEN it.front
    ELSE LET q == SelectSeq(it.key_values_rx, LAMBDA m : m.type = "Item") IN
         IF q = <<>> THEN NoItem ELSE q[1].item

PendingItems == {PendingItem(iters[i]) : i \in DOMAIN iters} \ {NoItem}

\* the equal-key group the next call has to consume
FrontGroup == {x \in PendingItems : \A y \in PendingItems : x.key <= y.key}

\* C6: with input streams sorted by strictly increasing key, the items returned
\* up to the first None come in strictly increasing key order, and when None is
\* returned every key of every input stream has been returned exactly once.
C6_RangeCompleteOrdered ==
    /\ \A i, j \in DOMAIN merger_out : i < j => merger_out[i].key < merger_out[j].key
    /\ {x.key : x \in Range(merger_out)} \subseteq InputKeys
    /\ merger_last.result = "None" => {x.key : x \in Range(merger_out)} = InputKeys

C6_Witness ==
    /\ merger_last.result = "None"
    /\ Len(merger_out) = MaxKey
    /\ Len(merger_inputs) >= 2
    /\ \E x, y \in InputItems : x.key = y.key /\ x.src # y.src

\* C7: the pair returned for a key is one of the input pairs with that key, and its
\* version is maximal among all input pairs with that key; at the end every input
\* key has such a pair.
C7_NewestCellWins ==
    /\ \A i \in DOMAIN merger_out :
          /\ merger_out[i] \in InputItems
          /\ \A x \in InputItems : x.key = merger_out[i].key => x.version <= merger_out[i].version
    /\ merger_last.result = "None" =>
          \A k \in InputKeys : \E i \in DOMAIN merger_out : merger_out[i].key = k

C7_Witness ==
    /\ merger_last.result = "Some"
    /\ \E x \in InputItems :
          /\ x.key = merger_last.item.key
          /\ x.version < merger_last.item.version
          /\ x.src > merger_last.item.src

\* C8: a call that consumes an equal-key group of g front items invokes the
\* deprecated callback exactly g - 1 times, once per losing item and never with
\* the returned winner (not at all when g = 1).
C8_DeprecatedCallbackCount ==
    [][Len(merger_out') = Len(merger_out) + 1 =>
          /\ Len(merger_last'.deprecated) = Cardinality(FrontGroup) - 1
          /\ Range(merger_last'.deprecated) = FrontGroup \ {merger_last'.item}
          /\ merger_last'.item \in FrontGroup]_vars

C8_Witness ==
    /\ merger_last.result = "Some"
    /\ Len(merger_last.deprecated) = 2
    /\ merger_last.item.src = 2

\* ======================================================== Manager properties

\* a tree whose blocks are on the wheels: built from a root block, or flushed
Persisted(t) == trees[t].mode = "Regular" \/ trees[t].flushed

\* client c has received the reply of a lookup
LookupReplied(c) == clients[c].pc = "idle" /\ clients[c].op = "lookup"

\* C1 (read-your-writes): the reply of a lookup(k) is never older than the newest
\* write to k acknowledged before the lookup was sent; when no other write to k
\* was under way meanwhile, the reply is exactly that write: its version, with the
\* inserted value's cell after an insert and a tombstone after a remove (and None
\* when k was never written).
C1_ReadYourWrites ==
    \A c \in Clients :
      LookupReplied(c) =>
        LET k == clients[c].key
            v == clients[c].floor[k]
            r == clients[c].reply
        IN /\ r.version >= v
           /\ clients[c].clean =>
                 /\ r.version = v
                 /\ r.cell = IF v = 0 THEN "None" ELSE write_log[v].cell

\* a lookup answered a tombstone out of a tree: it was sent after the remove was
\* acknowledged and the butcher's buffer went to the Manager meanwhile
C1_Witness ==
    \E c \in Clients :
      /\ LookupReplied(c)
      /\ clients[c].clean
      /\ clients[c].floor[clients[c].key] = 2
      /\ clients[c].reply = [version |-> 2, cell |-> "Tombstone"]
      /\ memcache[clients[c].key].version = 0
      /\ search_trees # {}

\* C2, as stated: a lookup whose tracker entry existed when a ButcherFlush was
\* handled is answered with a version not older than the flushed cache's version
\* of its key.
C2_AnyInFlightLookupSeesFlush ==
    \A c \in Clients : LookupReplied(c) => clients[c].reply.version >= clients[c].flush_any

\* C2 (invalidation, amended): a lookup whose butcher reply had not been received
\* when a ButcherFlush was handled is answered with a version not older than the
\* flushed cache's version of its key, and never with None when the cache holds it.
C2_NotReadyLookupSeesFlush ==
    \A c \in Clients :
      LookupReplied(c) =>
        /\ clients[c].reply.version >= clients[c].flush_nr
        /\ clients[c].flush_nr > 0 => clients[c].reply.cell # "None"

\* a lookup sent before any write was acknowledged is answered from the cache
\* flushed while it waited for the butcher
C2_Witness ==
    \E c \in Clients :
      /\ LookupReplied(c)
      /\ clients[c].floor[clients[c].key] = 0
      /\ clients[c].flush_nr > 0
      /\ clients[c].reply.version = clients[c].flush_nr

\* C3 (flush barrier): once a client has Flushed, every key written and
\* acknowledged before it sent the flush is held, at that version or a newer
\* one, by a persisted tree of the tree set.
C3_FlushBarrier ==
    \A c \in Clients :
      (clients[c].pc = "idle" /\ clients[c].op = "flush") =>
        \A k \in StoreKeys :
          clients[c].floor[k] > 0 =>
            \E t \in search_trees :
              Persisted(t) /\ trees[t].data[k].version >= clients[c].floor[k]

\* Flushed after an acknowledged write that went through a cache-bootstrapped tree
C3_Witness ==
    \E c \in Clients, t \in search_trees :
      /\ clients[c].pc = "idle" /\ clients[c].op = "flush"
      /\ clients[c].reply.cell = "Flushed"
      /\ trees[t].mode = "CacheBootstrap" /\ trees[t].flushed
      /\ \E k \in StoreKeys : clients[c].floor[k] > 0 /\ trees[t].data[k].version > 0

\* C4: a step that takes a request off the request channel is taken in Regular
\* mode only; while Flushing the channel can only grow.
C4_NoRequestTakenWhileFlushing ==
    [][current_mode.name = "Flushing" =>
          \/ request_queue' = request_queue
          \/ /\ Len(request_queue') = Len(request_queue) + 1
             /\ SubSeq(request_queue', 1, Len(request_queue)) = request_queue]_vars

\* Flushing with work outstanding and a client request waiting in the channel
C4_Witness ==
    /\ current_mode.name = "Flushing"
    /\ tasks_count + bg_tasks_count > 0
    /\ request_queue # <<>>

\* C5: Flushed is sent only from Flushing mode with no foreground and no
\* background task outstanding; that step is the only one leaving Flushing, and
\* the Flushed sent count the accepted FlushAll requests but the one under way.
C5_FlushedOnlyWhenDrained ==
    [][/\ flushed_sent' # flushed_sent =>
             /\ current_mode.name = "Flushing"
             /\ tasks_count + bg_tasks_count = 0
             /\ flushed_sent' = flushed_sent + 1
       /\ (current_mode.name = "Flushing" /\ current_mode'.name = "Regular") =>
             flushed_sent' = flushed_sent + 1
       /\ flush_accepted' =
             flushed_sent' + (IF current_mode'.name = "Flushing" THEN 1 ELSE 0)]_vars

\* a flush that had to wait for a compaction has been acknowledged
C5_Witness ==
    /\ flushed_sent = 1
    /\ current_mode.name = "Regular"
    /\ \E t \in DOMAIN trees : trees[t].origin = "merge"

\* C9, as stated: in the order the lookup replies are delivered, the versions
\* returned for a key never decrease.
C9_MonotoneInDeliveryOrder ==
    [][\A k \in StoreKeys : last_seen'[k] >= last_seen[k]]_vars

\* C9 (version monotonicity, amended): a lookup sent after the reply of another
\* lookup of the key was delivered returns a version not older than that reply's.
C9_MonotoneAfterReply ==
    \A c \in Clients :
      LookupReplied(c) => clients[c].reply.version >= clients[c].seen

\* a lookup sent after a reply carrying version 1 was delivered returns version
\* 2, out of a tree
C9_Witness ==
    \E c \in Clients :
      /\ LookupReplied(c)
      /\ clients[c].seen = 1
      /\ clients[c].reply.version = 2
      /\ memcache[clients[c].key].version = 0


\* the trees loaded at start, and the merges done since
LoadedTrees == {t \in DOMAIN trees : trees[t].origin = "load"}
MergedTrees == {t \in DOMAIN trees : trees[t].origin = "merge"}

\* no merge in flight, and no two trees of the set in one size bucket
Converged ==
    /\ pc = "loop"
    /\ merge_search_trees_tasks_count = 0
    /\ \A t \in BagToSet(bg_tasks) : t.kind # "MergeSearchTrees"
    /\ \A a, b \in search_trees :
          Bucket(CacheLen(trees[a].data)) = Bucket(CacheLen(trees[b].data)) => a = b

\* C10 (compaction convergence): from any N loaded trees, with no ButcherFlush,
\* the merges number at most N - 1 and the store ends up, for good, with no
\* merge in flight and at most one tree per size bucket.
C10_CompactionConverges ==
    /\ [](LoadedTrees # {} => Cardinality(MergedTrees) <= Cardinality(LoadedTrees) - 1)
    /\ [](LoadedTrees = {} => MergedTrees = {})
    /\ <>[]Converged

\* three loaded trees compacted into one by two merges
C10_Witness ==
    /\ Converged
    /\ Cardinality(LoadedTrees) = 3
    /\ Cardinality(MergedTrees) = 2
    /\ Cardinality(search_trees) = 1


\* ------------------------------------------------ tracker entries and tasks

\* the results of tasks of the given kinds still owed to tracker entry r: the
\* tasks pushed for it whose completion the loop has not handled yet
Owed(kinds, r) ==
    LET S == {t \in BagToSet(tasks) : t.kind \in kinds /\ t.request_ref = r}
    IN BagCardinality([t \in S |-> CopiesIn(t, tasks)])

InfoKinds == {"InfoButcher", "InfoSearchTree"}
LookupKinds == {"LookupButcher", "LookupSearchTree"}
LookupRangeKinds == {"LookupRangeSearchTree"}
FlushKinds == {"FlushButcher", "FlushSearchTree"}

\* every task that names a tracker entry names one that is in its table
OwedOnlyToPresent ==
    \A t \in BagToSet(tasks) :
        /\ t.kind \in InfoKinds => t.request_ref \in DOMAIN info_requests
        /\ t.kind \in LookupKinds => t.request_ref \in DOMAIN lookup_requests
        /\ t.kind \in LookupRangeKinds => t.request_ref \in DOMAIN lookup_range_requests
        /\ t.kind \in FlushKinds => t.request_ref \in DOMAIN flush_requests

\* Info, Lookup and LookupRange entries: the counter is the number of results
\* owed, and an entry in the table has a counter above zero
CountedTrackers ==
    /\ \A r \in DOMAIN info_requests :
          /\ info_requests[r].pending_count = Owed(InfoKinds, r)
          /\ info_requests[r].pending_count > 0
    /\ \A r \in DOMAIN lookup_requests :
          /\ lookup_requests[r].pending_count = Owed(LookupKinds, r)
          /\ lookup_requests[r].pending_count > 0
    /\ \A r \in DOMAIN lookup_range_requests :
          /\ lookup_range_requests[r].pending_count = Owed(LookupRangeKinds, r)
          /\ lookup_range_requests[r].pending_count > 0

\* (original statement of C11) the same for FlushRequest entries: its counter,
\* search_trees_pending_count, is the number of results owed to the entry and
\* is above zero while the entry is in the table
C11_EveryCounterIsOwedAndPositive ==
    /\ OwedOnlyToPresent
    /\ CountedTrackers
    /\ \A r \in DOMAIN flush_requests :
          /\ flush_requests[r].search_trees_pending_count = Owed(FlushKinds, r)
          /\ flush_requests[r].search_trees_pending_count > 0

\* C11: in every reachable state each InfoRequest, LookupRequest and
\* LookupRangeRequest entry has pending_count equal to the number of task
\* results still owed to it, and is in its table exactly while that number is
\* not zero; a FlushRequest entry counts the FlushSearchTree results owed to
\* it, and while its FlushButcher result is owed (butcher_done false) it is in
\* the table with a counter of zero
C11_CountersMatchOwedResults ==
    /\ OwedOnlyToPresent
    /\ CountedTrackers
    /\ \A r \in DOMAIN flush_requests :
          LET q == flush_requests[r] IN
          /\ q.search_trees_pending_count = Owed({"FlushSearchTree"}, r)
          /\ ~q.butcher_done =>
                 q.search_trees_pending_count = 0 /\ Owed({"FlushButcher"}, r) = 1
          /\ q.butcher_done =>
                 q.search_trees_pending_count > 0 /\ Owed({"FlushButcher"}, r) = 0

\* a lookup entry that has had a reply folded in and still waits for others,
\* next to a flush entry that waits for its trees
C11_Witness ==
    /\ \E r \in DOMAIN lookup_requests :
          /\ lookup_requests[r].pending_count >= 1
          /\ lookup_requests[r].butcher_status = "Done"
    /\ \E r \in DOMAIN flush_requests :
          /\ flush_requests[r].butcher_done
          /\ flush_requests[r].search_trees_pending_count >= 1


\* ------------------------------------------------------- compaction pairs

\* the handles waiting in the TreeSizeHeap
HeapRefs == {search_tree_refs[i].search_tree_ref : i \in DOMAIN search_tree_refs}

\* the MergeSearchTrees tasks pushed by the step
NewMergeTasks ==
    {t \in BagToSet(bg_tasks') : /\ t.kind = "MergeSearchTrees"
                                 /\ CopiesIn(t, bg_tasks') > CopiesIn(t, bg_tasks)}

\* C12: the handles in the TreeSizeHeap are pairwise distinct handles of trees
\* in the tree set, every pair popped for compaction consists of two distinct
\* trees of the tree set at that moment, and no unwrap() of the loop fails
C12_PoppedPairInTreeSet ==
    /\ [](pc # "panicked")
    /\ [](/\ HeapRefs \subseteq search_trees
          /\ \A i, j \in DOMAIN search_tree_refs :
                 i # j => search_tree_refs[i].search_tree_ref
                              # search_tree_refs[j].search_tree_ref)
    /\ [][\A t \in NewMergeTasks : /\ t.tree # t.tree_b
                                   /\ t.tree \in search_trees'
                                   /\ t.tree_b \in search_trees']_vars

\* a pair has been popped while a third tree waits in the heap
C12_Witness ==
    /\ \E t \in BagToSet(bg_tasks) : t.kind = "MergeSearchTrees"
    /\ search_tree_refs # <<>>


\* ------------------------------------------------------ results of a call

\* what a call of the operation returns inside Ok(..)
TypedResults(op) ==
    CASE op = "info" -> {"Info"}
      [] op = "insert" -> {"Inserted"}
      [] op = "lookup" -> {"None", "Value", "Tombstone"}
      [] op = "lookup_range" -> {"LookupRange"}
      [] op = "remove" -> {"Removed"}
      [] op = "flush" -> {"Flushed"}
      [] OTHER -> {}

\* C13: every return of a client call carries the typed result of its
\* operation or NoProcError; NoProcError is returned only at a send, made when
\* the Manager's receiver is gone; a call waiting for its reply either returns
\* the typed result or, its reply channel cancelled, goes on to send the same
\* request again (or its future is dropped by the caller, and nothing returns)
C13_TypedResultOrNoProcAtSend ==
    [][\A c \in Clients :
          /\ clients'[c] # clients[c] /\ clients'[c].pc = "idle" =>
                clients'[c].reply.cell \in TypedResults(clients'[c].op) \cup {"NoProcError"}
          /\ clients'[c] # clients[c] /\ clients'[c].reply = NoProcError =>
                /\ ManagerGone
                /\ clients[c].pc \in {"idle", "resend"}
                /\ clients'[c].pc = "idle"
          /\ clients[c].pc = "wait" /\ clients'[c].pc # "wait" =>
                \/ /\ clients'[c].pc = "idle"
                   /\ clients'[c].reply.cell \in TypedResults(clients[c].op)
                \/ /\ clients'[c].pc = "resend"
                   /\ clients'[c].op = clients[c].op
                   /\ clients'[c].key = clients[c].key
                \/ clients'[c] = [clients[c] EXCEPT !.pc = "dropped"]]_vars

\* one client's reply channel was cancelled and it is about to send again,
\* the other has had NoProcError from the send that followed a cancellation
C13_Witness ==
    \E c, d \in Clients :
        /\ clients[c].pc = "resend"
        /\ clients[d].pc = "idle"
        /\ clients[d].op # "none"
        /\ clients[d].reply = NoProcError
        /\ ops_left = 0


\* ------------------------------------------------------------- shutdown

RequestsClosed == \E i \in DOMAIN request_queue : request_queue[i] = ClosedRequest
FlushCacheClosed == flush_cache_chan = <<ClosedCache>>

DeprecatedTaken ==
    {t \in BagToSet(tasks) : /\ t.kind = "RetrieveValue"
                             /\ t.stage = "done"
                             /\ t.outcome = "DeprecatedResults"
                             /\ CopiesIn(t, tasks') < CopiesIn(t, tasks)}

\* the tasks the step pushes for tracker entry r
PushedFor(kind, r) ==
    {u \in BagToSet(tasks') : /\ u.kind = kind
                              /\ u.request_ref = r
                              /\ CopiesIn(u, tasks') > CopiesIn(u, tasks)}

\* what stands for client c's lookup inside the store: its request in the
\* channel, a tracker entry replying to c, a RetrieveValue that has not replied
LookupStandIns(c) ==
    Cardinality({i \in DOMAIN request_queue : /\ request_queue[i].kind = "lookup"
                                              /\ request_queue[i].client = c})
    + Cardinality({r \in DOMAIN lookup_requests : lookup_requests[r].reply_tx = c})
    + BagCardinality([t \in {u \in BagToSet(tasks) :
                                 /\ u.kind = "RetrieveValue"
                                 /\ u.client = c
                                 /\ ~(u.stage = "done" /\ u.outcome = "RetrieveSuccess")}
                      |-> CopiesIn(t, tasks)])

\* C15: handling RetrieveValue's DeprecatedResults{key, reply_tx} delivers
\* nothing to the client and inserts one new LookupRequest for the same key and
\* reply channel, with butcher_status NotReady, best None and pending_count =
\* 1 + |trees|, one LookupButcher and one LookupTree per tree of the current set
\* pushed for it; and at every moment a client waiting for a lookup reply has
\* exactly one stand-in in the store, a client not waiting for one has none,
\* so the whole lookup is answered once
C15_DeprecatedLookupRelaunched ==
    /\ [](\A c \in Clients :
             LookupStandIns(c) =
                 IF clients[c].pc = "wait" /\ clients[c].op = "lookup" THEN 1 ELSE 0)
    /\ [][\A t \in DeprecatedTaken :
             /\ clients' = clients
             /\ \E r \in DOMAIN lookup_requests' :
                   /\ r \notin DOMAIN lookup_requests
                   /\ DOMAIN lookup_requests' = DOMAIN lookup_requests \cup {r}
                   /\ lookup_requests'[r].key = t.key
                   /\ lookup_requests'[r].reply_tx = t.client
                   /\ lookup_requests'[r].butcher_status = "NotReady"
                   /\ lookup_requests'[r].found_fold = NoFound
                   /\ lookup_requests'[r].pending_count = 1 + Cardinality(search_trees)
                   /\ Cardinality(PushedFor("LookupButcher", r)) = 1
                   /\ {u.tree : u \in PushedFor("LookupSearchTree", r)} = search_trees
                   /\ \A u \in PushedFor("LookupButcher", r)
                                   \cup PushedFor("LookupSearchTree", r) :
                          u.key = t.key /\ CopiesIn(u, tasks') = 1]_vars

\* RetrieveValue has reported DeprecatedResults for a candidate found in a tree
\* that was merged away meanwhile; the client of the lookup is still waiting
C15_Witness ==
    \E t \in BagToSet(tasks) :
        /\ t.kind = "RetrieveValue"
        /\ t.stage = "done"
        /\ t.outcome = "DeprecatedResults"
        /\ t.found.tree \notin search_trees
        /\ \E m \in search_trees : trees[m].origin = "merge"
        /\ clients[t.client].pc = "wait"
        /\ clients[t.client].op = "lookup"
        /\ LookupStandIns(t.client) = 1


\* ------------------------------------------------------ merger: version ties

\* C16: of several input items with the same key and the same version the one
\* returned is that of the later-added source, the source with the highest
\* index in the vector the merger was created with, whatever calls came before
\* and whichever sources were removed meanwhile
C16_TieGoesToLaterAddedSource ==
    \A i \in DOMAIN merger_out :
        \A x \in InputItems :
            x.key = merger_out[i].key /\ x.version = merger_out[i].version
                => x.src <= merger_out[i].src


\* ------------------------------------------------------------- task errors

\* the task results the step takes off `tasks` or `bg_tasks_rx` that are an Err
ErrTaken ==
    {t \in BagToSet(tasks) : t.kind = "Err" /\ CopiesIn(t, tasks') < CopiesIn(t, tasks)}
    \cup {t \in BagToSet(bg_tasks) :
              t.kind = "Err" /\ CopiesIn(t, bg_tasks') < CopiesIn(t, bg_tasks)}

\* no entry changed, none replied to, no task pushed, no channel read
NothingHandled ==
    /\ UNCHANGED <<current_mode, search_trees, search_tree_refs, info_requests,
                   lookup_requests, lookup_range_requests, flush_requests,
                   merge_search_trees_tasks_count, request_queue, flush_cache_chan,
                   trees, flushed_sent>>
    /\ tasks' \sqsubseteq tasks
    /\ bg_tasks' \sqsubseteq bg_tasks
    /\ \A c \in Clients :
          \/ clients'[c] = clients[c]
          \/ clients'[c] = PidOnCanceled(c)
          \/ clients'[c].reply = NoProcError

\* C17: the loop iteration that receives a task result that is an error, from a
\* foreground or a background task, returns the fatal task error without
\* touching a tracker entry, replying or pushing a task; and once it has
\* returned no event is handled any more: what changes afterwards is only the
\* clients finding their reply channels cancelled and their sends failing
C17_TaskErrorEndsLoop ==
    /\ [][ErrTaken # {} => pc = "loop" /\ pc' = "failed" /\ NothingHandled]_vars
    /\ [][pc = "failed" => pc' = "failed" /\ NothingHandled
                           /\ UNCHANGED <<tasks, bg_tasks, tasks_count, bg_tasks_count>>]_vars

\* the loop has returned the task error with a tracker entry unanswered and a
\* request unread
C17_Witness ==
    /\ pc = "failed"
    /\ lookup_requests # <<>>
    /\ request_queue # <<>>
    /\ Head(request_queue) # ClosedRequest
    /\ \E c \in Clients : clients[c].pc = "wait"


\* ------------------------------------------------------- merger: lost peers

\* the streams the next call has to advance whose sender is gone: nothing is
\* left to receive and NoMore was not among what was received
LostToAdvance ==
    {i \in DOMAIN iters : /\ iters[i].iter_state = "NotReady"
                          /\ \A j \in DOMAIN iters[i].key_values_rx :
                                 iters[i].key_values_rx[j].type = "BlockFinish"}

\* C18: a call that has to advance a stream whose sending side was closed
\* before NoMore returns Err(BackendIterPeerLost) and no item, and an error is
\* returned by no other call
C18_PeerLostIsAnError ==
    [][merger_pc = "ready" /\ advance_head_idx = 0 =>
          /\ LostToAdvance # {} =>
                /\ merger_last'.result = "Err"
                /\ merger_last'.item = NoItem
                /\ merger_out' = merger_out
          /\ LostToAdvance = {} => merger_last'.result \in {"Some", "None"}]_vars

\* after an item was returned a call came upon the closed stream
C18_Witness ==
    /\ merger_last.result = "Err"
    /\ merger_out # <<>>
    /\ \E s \in DOMAIN merger_inputs :
          /\ merger_inputs[s] # <<>>
          /\ merger_inputs[s][Len(merger_inputs[s])].type = "Item"


\* --------------------------------------------------- the lookup's candidate

\* the lookup replies the step takes off `tasks`
LookupReplyTaken ==
    {t \in BagToSet(tasks) : /\ t.kind \in LookupKinds
                             /\ t.stage = "done"
                             /\ CopiesIn(t, tasks') < CopiesIn(t, tasks)}

\* what the reply says, and whether it takes part in the choice: a tree's reply
\* always, the butcher's unless the entry was invalidated meanwhile
ReplyOf(t) == IF t.kind = "LookupButcher" THEN t.found ELSE TreeLookup(t.tree, t.key)
ReplyCounts(t) ==
    t.kind = "LookupSearchTree" \/ lookup_requests[t.request_ref].butcher_status = "NotReady"

\* the candidate after the step: in the entry while replies are pending, in the
\* RetrieveValue task pushed when the last one has come
CandidateAfter(t) ==
    IF lookup_requests[t.request_ref].pending_count > 1
    THEN {lookup_requests'[t.request_ref].found_fold}
    ELSE {u.found : u \in {w \in BagToSet(tasks') :
                               /\ w.kind = "RetrieveValue"
                               /\ w.stage = "sent"
                               /\ w.client = lookup_requests[t.request_ref].reply_tx
                               /\ CopiesIn(w, tasks') > CopiesIn(w, tasks)}}

\* C19: a LookupRequest starts with no candidate, and every reply that takes
\* part leaves as candidate the one of (candidate so far, reply) with the
\* greater version, the candidate so far on a tie; so the candidate handed to
\* RetrieveValue at pending_count zero is the reply of the greatest version
\* among the tree replies and the butcher reply that was not discarded, None
\* exactly if all of them were None, in whatever order they came
C19_CandidateIsNewestReply ==
    /\ [][\A r \in DOMAIN lookup_requests' \ DOMAIN lookup_requests :
              lookup_requests'[r].found_fold = NoFound]_vars
    /\ [][\A t \in LookupReplyTaken :
              LET old == lookup_requests[t.request_ref].found_fold
                  reply == ReplyOf(t)
              IN /\ Cardinality(CandidateAfter(t)) = 1
                 /\ \A new \in CandidateAfter(t) :
                       IF ReplyCounts(t) /\ reply.version > old.version
                       THEN new = reply
                       ELSE new = old]_vars

\* the butcher's newer cell was chosen over the older one a tree of the set
\* holds for the key
C19_Witness ==
    \E t \in BagToSet(tasks) :
        /\ t.kind = "RetrieveValue"
        /\ t.found.tree = 0
        /\ t.found.version > 1
        /\ \E s \in search_trees :
              /\ trees[s].data[t.key].version > 0
              /\ trees[s].data[t.key].version < t.found.version


\* ------------------------------------------------- the effect of a ButcherFlush

\* the step receives a ButcherFlush{cache} from the channel
FlushCacheTaken ==
    /\ flush_cache_chan # <<>>
    /\ Head(flush_cache_chan) # ClosedCache
    /\ flush_cache_chan' = <<>>
    /\ pc' = "loop"

\* the fields of a LookupRequest
LookupRequestFields(q) ==
    <<q.key, q.reply_tx, q.butcher_status, q.pending_count, q.found_fold>>

\* C20: the step that handles ButcherFlush{cache} adds exactly one tree, built
\* over the cache, to the tree set, and its handle to the TreeSizeHeap with
\* items_count = cache.len() (where it stays unless the pop that follows takes
\* it for a compaction); every LookupRequest with status NotReady becomes
\* Invalidated, its pending_count grows by one and one LookupTree task for its
\* key against the new tree is pushed; every other LookupRequest keeps its
\* fields and gets no task; the Info, LookupRange and Flush tables are unchanged
C20_FlushCacheFrame ==
    [][FlushCacheTaken =>
          LET cache == Head(flush_cache_chan)
              added == search_trees' \ search_trees
              merged == UNION {{m.tree, m.tree_b} : m \in NewMergeTasks}
          IN /\ search_trees \subseteq search_trees'
             /\ Cardinality(added) = 1
             /\ \A n \in added :
                   /\ trees'[n].data = cache
                   /\ HeapRefs' \cup merged = HeapRefs \cup {n}
                   /\ n \notin merged =>
                         \E i \in DOMAIN search_tree_refs' :
                             search_tree_refs'[i] = [items_count |-> CacheLen(cache),
                                                    search_tree_ref |-> n]
                   /\ DOMAIN lookup_requests' = DOMAIN lookup_requests
                   /\ \A r \in DOMAIN lookup_requests :
                         LET q == lookup_requests[r]
                             q2 == lookup_requests'[r]
                         IN IF q.butcher_status = "NotReady"
                            THEN /\ LookupRequestFields(q2) =
                                        <<q.key, q.reply_tx, "Invalidated",
                                          q.pending_count + 1, q.found_fold>>
                                 /\ Cardinality(PushedFor("LookupSearchTree", r)) = 1
                                 /\ \A u \in PushedFor("LookupSearchTree", r) :
                                        /\ u.tree = n
                                        /\ u.key = q.key
                                        /\ CopiesIn(u, tasks') = CopiesIn(u, tasks) + 1
                            ELSE /\ LookupRequestFields(q2) = LookupRequestFields(q)
                                 /\ PushedFor("LookupSearchTree", r) = {}
             /\ tasks \sqsubseteq tasks'
             /\ BagCardinality(tasks') = BagCardinality(tasks)
                    + Cardinality({r \in DOMAIN lookup_requests :
                                       lookup_requests[r].butcher_status = "NotReady"})
             /\ tasks_count' - tasks_count = BagCardinality(tasks') - BagCardinality(tasks)
             /\ UNCHANGED <<info_requests, lookup_range_requests, flush_requests>>]_vars

\* a lookup launched on an empty tree set was invalidated by a flush: besides
\* the butcher's reply it now waits for the reply of the tree built over the cache
C20_Witness ==
    \E r \in DOMAIN lookup_requests :
        /\ lookup_requests[r].butcher_status = "Invalidated"
        /\ lookup_requests[r].pending_count = 2
        /\ \E t \in BagToSet(tasks) :
              /\ t.kind = "LookupSearchTree"
              /\ t.request_ref = r
              /\ trees[t.tree].origin = "flush"
        /\ \E t \in BagToSet(tasks) : t.kind = "LookupButcher" /\ t.request_ref = r
        /\ flush_requests # <<>>


\* ------------------------------------------- the butcher's reply to a lookup

\* the butcher lookup replies the step takes off `tasks`
ButcherReplyTaken == {t \in LookupReplyTaken : t.kind = "LookupButcher"}

\* C21: a butcher lookup reply taken for an entry whose butcher_status is
\* Invalidated lowers pending_count by one and leaves the candidate as it was,
\* whatever version the reply carries; one taken in status NotReady lowers
\* pending_count by one, sets the status to Done and leaves as candidate the
\* fold of the candidate so far and the reply
C21_InvalidatedButcherReplyDiscarded ==
    [][\A t \in ButcherReplyTaken :
          LET q == lookup_requests[t.request_ref]
              folded == IF replace_fold_found(q.found_fold, t.found)
                        THEN t.found ELSE q.found_fold
          IN  /\ q.butcher_status = "Invalidated" =>
                    /\ CandidateAfter(t) = {q.found_fold}
                    /\ q.pending_count > 1 =>
                          lookup_requests'[t.request_ref] =
                              [q EXCEPT !.pending_count = @ - 1]
              /\ q.butcher_status = "NotReady" =>
                    /\ CandidateAfter(t) = {folded}
                    /\ q.pending_count > 1 =>
                          lookup_requests'[t.request_ref] =
                              [q EXCEPT !.pending_count = @ - 1,
                                        !.butcher_status = "Done",
                                        !.found_fold = folded]
              /\ q.pending_count = 1 => t.request_ref \notin DOMAIN lookup_requests']_vars

\* a finished butcher reply that carries a cell newer than the candidate waits
\* for an entry that a flush has invalidated
C21_Witness ==
    \E t \in BagToSet(tasks) :
        /\ t.kind = "LookupButcher"
        /\ t.stage = "done"
        /\ t.request_ref \in DOMAIN lookup_requests
        /\ lookup_requests[t.request_ref].butcher_status = "Invalidated"
        /\ t.found.version > lookup_requests[t.request_ref].found_fold.version
        /\ pc = "loop"


\* ---------------------------------------------------------- the Info request

\* the Info replies the step takes off `tasks`
InfoReplyTaken ==
    {t \in BagToSet(tasks) : /\ t.kind \in InfoKinds
                             /\ t.stage = "done"
                             /\ CopiesIn(t, tasks') < CopiesIn(t, tasks)}

\* the counts a reply carries
InfoReplyOf(t) == IF t.kind = "InfoButcher" THEN t.info ELSE InfoOf(trees[t.tree].data)

\* all the tasks the step pushes
PushedTasks == {u \in BagToSet(tasks') : CopiesIn(u, tasks') > CopiesIn(u, tasks)}

\* client c is handed the reply to its Info call by the step
InfoReplied(c) ==
    /\ clients[c].pc = "wait"
    /\ clients[c].op = "info"
    /\ clients'[c].pc = "idle"

\* C22: an Info request inserts one entry with pending_count = 1 + |trees| of
\* the tree set of that moment and the zero sum, and pushes one InfoButcher and
\* one InfoSearchTree per tree of the set, each once, and nothing else; every
\* reply taken lowers pending_count by one and adds its two counts field by
\* field to the sum; the client is replied to in the step that brings
\* pending_count to zero and in no other, with the sum including the last
\* reply, and the entry is removed in that step.  The one reply is therefore
\* the field-wise sum of the 1 + |trees| replies
C22_InfoReplyIsSumOfAllReplies ==
    /\ [][\A r \in DOMAIN info_requests' \ DOMAIN info_requests :
              /\ request_queue # <<>>
              /\ Head(request_queue).kind = "info"
              /\ request_queue' = Tail(request_queue)
              /\ info_requests'[r] =
                     [reply_tx |-> Head(request_queue).client,
                      pending_count |-> 1 + Cardinality(search_trees),
                      info_fold |-> [alive_cells_count |-> 0, tombstones_count |-> 0]]
              /\ \A u \in PushedTasks :
                     /\ u.kind \in InfoKinds
                     /\ u.request_ref = r
                     /\ CopiesIn(u, tasks') = 1
              /\ Cardinality({u \in PushedTasks : u.kind = "InfoButcher"}) = 1
              /\ {u.tree : u \in {w \in PushedTasks : w.kind = "InfoSearchTree"}}
                     = search_trees
              /\ Cardinality(PushedTasks) = 1 + Cardinality(search_trees)
              /\ UNCHANGED clients]_vars
    /\ [][\A t \in InfoReplyTaken :
              LET q == info_requests[t.request_ref]
                  sum == [alive_cells_count |->
                              q.info_fold.alive_cells_count
                                  + InfoReplyOf(t).alive_cells_count,
                          tombstones_count |->
                              q.info_fold.tombstones_count
                                  + InfoReplyOf(t).tombstones_count]
              IN  IF q.pending_count > 1
                  THEN /\ info_requests' =
                              [info_requests EXCEPT ![t.request_ref] =
                                  [q EXCEPT !.pending_count = @ - 1, !.info_fold = sum]]
                       /\ UNCHANGED clients
                  ELSE /\ t.request_ref \notin DOMAIN info_requests'
                       /\ InfoReplied(q.reply_tx)
                       /\ clients'[q.reply_tx].info = sum
                       /\ \A c \in Clients \ {q.reply_tx} : clients'[c] = clients[c]]_vars
    /\ [][\A c \in Clients :
              InfoReplied(c) =>
                  \E t \in InfoReplyTaken :
                      /\ info_requests[t.request_ref].pending_count = 1
                      /\ info_requests[t.request_ref].reply_tx = c]_vars

\* a client holds an Info reply that counts one live cell and one tombstone:
\* with one key in the store the two come from different sources, a tree and
\* the butcher
C22_Witness ==
    \E c \in Clients :
        /\ clients[c].pc = "idle"
        /\ clients[c].op = "info"
        /\ clients[c].info.alive_cells_count = 1
        /\ clients[c].info.tombstones_count = 1
        /\ search_trees # {}


\* ------------------------------------------------------------ the range scan

\* the step takes a LookupRange request off the channel
LookupRangeAccepted ==
    /\ request_queue # <<>>
    /\ Head(request_queue).kind = "lookup_range"
    /\ request_queue' = Tail(request_queue)

\* the results of the given kind the step takes off `tasks`
DoneTaken(kind) ==
    {t \in BagToSet(tasks) : /\ t.kind = kind
                             /\ t.stage = "done"
                             /\ CopiesIn(t, tasks') < CopiesIn(t, tasks)}

\* the background tasks the step starts
PushedBgTasks == {u \in BagToSet(bg_tasks') : CopiesIn(u, bg_tasks') > CopiesIn(u, bg_tasks)}

\* the one MergeLookupRange the step starts, for the given range, sink, butcher items
\* and tree streams
MergeLookupRangeStarted(range, sink, items, streams) ==
    /\ Cardinality(PushedBgTasks) = 1
    /\ \A u \in PushedBgTasks :
          /\ u.kind = "MergeLookupRange"
          /\ u.stage = "sent"
          /\ u.key = range
          /\ u.client = sink
          /\ u.butcher_iter_items = items
          /\ u.streams = streams
          /\ CopiesIn(u, bg_tasks') = CopiesIn(u, bg_tasks) + 1
    /\ bg_tasks_count' = bg_tasks_count + 1

\* C23: the step that accepts a LookupRange hands the receiver to the client
\* and pushes one LookupRangeButcher, not yet run, and nothing else: no entry,
\* no tree task, no background task.  The step that takes the LookupRangeButcher
\* result fans out over the tree set it finds: none -> MergeLookupRange starts
\* at once in the background; otherwise one entry with pending_count = |trees|
\* and one LookupRangeSearchTree per tree.  Each tree result lowers
\* pending_count by one and adds its stream; MergeLookupRange starts in the
\* step that brings pending_count to zero, with all the streams, and a
\* MergeLookupRange starts in no other step
C23_LookupRangeStages ==
    /\ [][LookupRangeAccepted =>
              LET c == Head(request_queue).client IN
              /\ clients'[c].pc = "idle"
              /\ clients'[c].reply.cell = "LookupRange"
              /\ Cardinality(PushedTasks) = 1
              /\ \A u \in PushedTasks :
                    /\ u.kind = "LookupRangeButcher"
                    /\ u.stage = "sent"
                    /\ u.client = c
                    /\ u.key = Head(request_queue).key
                    /\ u.butcher_iter_items = <<>>
              /\ tasks_count' = tasks_count + 1
              /\ UNCHANGED <<lookup_range_requests, bg_tasks, bg_tasks_count>>]_vars
    /\ [][\A t \in DoneTaken("LookupRangeButcher") :
              IF search_trees = {}
              THEN /\ MergeLookupRangeStarted(t.key, t.client, t.butcher_iter_items, {})
                   /\ PushedTasks = {}
                   /\ UNCHANGED lookup_range_requests
              ELSE /\ PushedBgTasks = {}
                   /\ \E r \in DOMAIN lookup_range_requests' \ DOMAIN lookup_range_requests :
                         /\ DOMAIN lookup_range_requests'
                                = DOMAIN lookup_range_requests \cup {r}
                         /\ lookup_range_requests'[r] =
                                [range |-> t.key,
                                 key_values_tx |-> t.client,
                                 butcher_iter_items |-> t.butcher_iter_items,
                                 merger_iters |-> {},
                                 pending_count |-> Cardinality(search_trees)]
                         /\ \A u \in PushedTasks :
                               /\ u.kind = "LookupRangeSearchTree"
                               /\ u.key = t.key
                               /\ u.request_ref = r
                               /\ CopiesIn(u, tasks') = 1
                         /\ {u.tree : u \in PushedTasks} = search_trees
                         /\ Cardinality(PushedTasks) = Cardinality(search_trees)]_vars
    /\ [][\A t \in DoneTaken("LookupRangeSearchTree") :
              LET q == lookup_range_requests[t.request_ref] IN
              IF q.pending_count > 1
              THEN /\ lookup_range_requests' =
                          [lookup_range_requests EXCEPT ![t.request_ref] =
                              [q EXCEPT !.pending_count = @ - 1,
                                        !.merger_iters = @ \cup {t.tree}]]
                   /\ PushedBgTasks = {}
              ELSE /\ t.request_ref \notin DOMAIN lookup_range_requests'
                   /\ MergeLookupRangeStarted(q.range, q.key_values_tx, q.butcher_iter_items,
                                              q.merger_iters \cup {t.tree})]_vars
    /\ [][(\E u \in PushedBgTasks : u.kind = "MergeLookupRange" /\ u.stage = "sent") =>
              \/ \E t \in DoneTaken("LookupRangeButcher") : search_trees = {}
              \/ \E t \in DoneTaken("LookupRangeSearchTree") :
                    lookup_range_requests[t.request_ref].pending_count = 1]_vars

\* the client holds the receiver while its scan waits for the last of two tree
\* streams, the trees being two that came into the set by flushes
C23_Witness ==
    \E r \in DOMAIN lookup_range_requests :
        /\ lookup_range_requests[r].pending_count = 1
        /\ Cardinality(lookup_range_requests[r].merger_iters) = 1
        /\ clients[lookup_range_requests[r].key_values_tx].pc = "idle"
        /\ clients[lookup_range_requests[r].key_values_tx].reply.cell = "LookupRange"


\* ------------------------------------------------- the retry of a range scan

\* the MergeLookupRange results the step takes as DeprecatedResults
RangeDeprecatedTaken ==
    {t \in BagToSet(bg_tasks) : /\ t.kind = "MergeLookupRange"
                                /\ t.stage = "done"
                                /\ t.outcome = "DeprecatedResults"
                                /\ CopiesIn(t, bg_tasks') < CopiesIn(t, bg_tasks)}

\* C24: the step that takes MergeLookupRange's DeprecatedResults{modified_range,
\* sink} pushes one LookupRangeButcher, not yet run, for modified_range and the
\* same sink, and nothing else; no client is replied to, no entry is made and
\* no background task started in that step.  The scan thus goes on over the
\* channel the client holds, from the butcher and then the tree set found when
\* the new LookupRangeButcher is done
C24_DeprecatedRangeRedispatched ==
    [][\A t \in RangeDeprecatedTaken :
          /\ Cardinality(PushedTasks) = 1
          /\ \A u \in PushedTasks :
                /\ u.kind = "LookupRangeButcher"
                /\ u.stage = "sent"
                /\ u.key = t.key
                /\ u.client = t.client
                /\ u.butcher_iter_items = <<>>
                /\ CopiesIn(u, tasks') = CopiesIn(u, tasks) + 1
          /\ tasks_count' = tasks_count + 1
          /\ bg_tasks_count' = bg_tasks_count - 1
          /\ PushedBgTasks = {}
          /\ UNCHANGED <<clients, lookup_range_requests, search_trees, current_mode>>]_vars

\* a LookupRangeButcher is out for a range that starts at a key, which no
\* client asks for: it is the retry of a scan that had reached that key, and
\* the client of the scan holds the receiver it was given at the start
C24_Witness ==
    \E t \in BagToSet(tasks) :
        /\ t.kind = "LookupRangeButcher"
        /\ t.key > 0
        /\ clients[t.client].pc = "idle"
        /\ clients[t.client].op = "lookup_range"
        /\ clients[t.client].reply.cell = "LookupRange"


\* ------------------------------------------------------ the order of a flush

\* the step takes a FlushAll request off the channel
FlushAllAccepted ==
    /\ request_queue # <<>>
    /\ Head(request_queue).kind = "flush"
    /\ request_queue' = Tail(request_queue)

\* C25: the step that accepts a FlushAll inserts one FlushRequest (butcher not
\* done, no tree pending), pushes one FlushButcher and nothing else, and sets
\* the mode to Flushing for the caller; while an entry's butcher is not done no
\* FlushSearchTree is out for it; the step that takes the FlushButcher ack
\* removes the entry if the tree set is empty, else marks the butcher done,
\* pushes one FlushSearchTree per tree of the set and sets the pending count to
\* their number; each FlushSearchTree ack lowers the pending count by one; the
\* entry is removed in the step that takes the last ack, and an entry leaves
\* the table in no other step than these
C25_FlushAllOrdering ==
    /\ [][FlushAllAccepted =>
              /\ \E r \in DOMAIN flush_requests' \ DOMAIN flush_requests :
                    /\ DOMAIN flush_requests' = DOMAIN flush_requests \cup {r}
                    /\ flush_requests'[r] =
                           [butcher_done |-> FALSE, search_trees_pending_count |-> 0]
                    /\ Cardinality(PushedTasks) = 1
                    /\ \A u \in PushedTasks :
                          /\ u.kind = "FlushButcher"
                          /\ u.stage = "sent"
                          /\ u.request_ref = r
                          /\ CopiesIn(u, tasks') = 1
              /\ tasks_count' = tasks_count + 1
              /\ current_mode' = [name |-> "Flushing",
                                  done_reply_tx |-> Head(request_queue).client]
              /\ PushedBgTasks = {}]_vars
    /\ [](\A t \in BagToSet(tasks) :
              t.kind = "FlushSearchTree" =>
                  /\ t.request_ref \in DOMAIN flush_requests
                  /\ flush_requests[t.request_ref].butcher_done
                  /\ \A u \in BagToSet(tasks) :
                        u.kind = "FlushButcher" => u.request_ref # t.request_ref)
    /\ [][\A t \in DoneTaken("FlushButcher") :
              IF search_trees = {}
              THEN /\ t.request_ref \notin DOMAIN flush_requests'
                   /\ PushedTasks = {}
              ELSE /\ flush_requests' =
                          [flush_requests EXCEPT ![t.request_ref] =
                              [butcher_done |-> TRUE,
                               search_trees_pending_count |-> Cardinality(search_trees)]]
                   /\ \A u \in PushedTasks :
                         /\ u.kind = "FlushSearchTree"
                         /\ u.request_ref = t.request_ref
                         /\ CopiesIn(u, tasks') = 1
                   /\ {u.tree : u \in PushedTasks} = search_trees
                   /\ Cardinality(PushedTasks) = Cardinality(search_trees)]_vars
    /\ [][\A t \in DoneTaken("FlushSearchTree") :
              LET q == flush_requests[t.request_ref] IN
              /\ PushedTasks = {}
              /\ IF q.search_trees_pending_count > 1
                 THEN flush_requests' =
                          [flush_requests EXCEPT ![t.request_ref] =
                              [q EXCEPT !.search_trees_pending_count = @ - 1]]
                 ELSE t.request_ref \notin DOMAIN flush_requests']_vars
    /\ [][\A r \in DOMAIN flush_requests \ DOMAIN flush_requests' :
              \/ \E t \in DoneTaken("FlushButcher") :
                    t.request_ref = r /\ search_trees = {}
              \/ \E t \in DoneTaken("FlushSearchTree") :
                    /\ t.request_ref = r
                    /\ flush_requests[r].search_trees_pending_count = 1]_vars

\* the butcher has acknowledged a flush accepted with two trees in the set, and
\* the acks of both trees are still to come
C25_Witness ==
    \E r \in DOMAIN flush_requests :
        /\ flush_requests[r].butcher_done
        /\ flush_requests[r].search_trees_pending_count = 2
        /\ Cardinality(search_trees) = 2
        /\ current_mode.name = "Flushing"


\* ---------------------------------------------------- the end of a compaction

\* the MergeSearchTrees results the step takes
MergeDoneTaken ==
    {t \in BagToSet(bg_tasks) : /\ t.kind = "MergeSearchTrees"
                                /\ t.stage = "done"
                                /\ CopiesIn(t, bg_tasks') < CopiesIn(t, bg_tasks)}

\* the handles that are paired in a MergeSearchTrees the step starts
NewlyPaired == UNION {{u.tree, u.tree_b} : u \in NewMergeTasks}

\* C26: the step that takes a MergeSearchTrees result removes both source trees
\* from the tree set and pushes one DemolishSearchTree for each of them and no
\* other task; it adds one new tree to the set, a regular one that holds the
\* merge of the two; the new tree's handle goes to the TreeSizeHeap with the
\* merged tree's items count and one pop is tried on the heap after that: at
\* most one MergeSearchTrees is started, the handles left in the heap and the
\* pair popped are those of the heap before and the new one, and none is
\* started only when no bucket of the heap holds two handles; the tree set
\* is smaller by exactly one
C26_MergeDoneReplacesTwoByOne ==
    [][\A t \in MergeDoneTaken :
          pc' # "panicked" =>
          /\ t.tree # t.tree_b
          /\ {t.tree, t.tree_b} \subseteq search_trees
          /\ t.tree \notin search_trees'
          /\ t.tree_b \notin search_trees'
          /\ Cardinality(PushedTasks) = 2
          /\ \A u \in PushedTasks :
                /\ u.kind = "DemolishSearchTree"
                /\ u.tree \in {t.tree, t.tree_b}
                /\ CopiesIn(u, tasks') = CopiesIn(u, tasks) + 1
          /\ {u.tree : u \in PushedTasks} = {t.tree, t.tree_b}
          /\ tasks_count' = tasks_count + 2
          /\ \E n \in search_trees' \ search_trees :
                /\ search_trees' = (search_trees \ {t.tree, t.tree_b}) \cup {n}
                /\ n \notin DOMAIN trees
                /\ trees'[n].mode = "Regular"
                /\ trees'[n].data = MergeTreesData(t.tree, t.tree_b)
                /\ HeapRefs' \cup NewlyPaired = HeapRefs \cup {n}
                /\ HeapRefs' \cap NewlyPaired = {}
                /\ \A i \in DOMAIN search_tree_refs' :
                      search_tree_refs'[i].search_tree_ref = n =>
                          search_tree_refs'[i].items_count = CacheLen(trees'[n].data)
          /\ Cardinality(NewMergeTasks) <= 1
          /\ NewMergeTasks = {} =>
                \A i, j \in DOMAIN search_tree_refs' :
                    Bucket(search_tree_refs'[i].items_count)
                        = Bucket(search_tree_refs'[j].items_count) => i = j
          /\ merge_search_trees_tasks_count' =
                 merge_search_trees_tasks_count - 1 + Cardinality(NewMergeTasks)
          /\ Cardinality(search_trees') = Cardinality(search_trees) - 1]_vars

\* a merged tree is itself paired for a further merge, and the two trees it
\* was merged from are out of the set with their demolition under way
C26_Witness ==
    \E u \in BagToSet(bg_tasks) :
        /\ u.kind = "MergeSearchTrees"
        /\ \E n \in {u.tree, u.tree_b} :
              /\ trees[n].origin = "merge"
              /\ n \in search_trees
        /\ Cardinality({d \in BagToSet(tasks) : d.kind = "DemolishSearchTree"
                                                /\ d.tree \notin search_trees}) = 2


\* ------------------------------------------------------------- the bootstrap

\* the positions, among the blocks received so far, of the blocks that are roots
RootsScanned == {i \in 1..blocks_total : block_refs_rx[i].type = "Root"}

\* the handle load gives to the tree of the root at position i: handles are
\* handed out in the order of the stream
RootHandle(i) == Cardinality({j \in RootsScanned : j <= i})

\* the item load's next turn receives, if the stream has one more
NextItem == block_refs_rx[blocks_total + 1]

\* C27: while load scans, and when it has ended at NoMoreBlocks, the tree set
\* holds exactly one tree per root block received, a regular tree with that
\* root's keys, and the TreeSizeHeap exactly one handle per such tree with the
\* root's entries count; a block of another magic and a leaf change nothing and
\* the scan goes on; a block that fails to decode otherwise, and a stream that
\* ends without NoMoreBlocks, end load with a fatal error; after a fatal error
\* nothing runs, so busyloop is entered only behind a NoMoreBlocks that was
\* reached without such a block
C27_BootstrapLoadsRootsOnly ==
    /\ [](pc \in {"scan", "startup"} =>
             /\ search_trees = {RootHandle(i) : i \in RootsScanned}
             /\ Cardinality(search_trees) = Cardinality(RootsScanned)
             /\ Len(search_tree_refs) = Cardinality(RootsScanned)
             /\ \A i \in RootsScanned :
                   /\ trees[RootHandle(i)].mode = "Regular"
                   /\ CacheKeys(trees[RootHandle(i)].data) = block_refs_rx[i].keys
                   /\ \E n \in DOMAIN search_tree_refs :
                         search_tree_refs[n] =
                             [items_count |-> Cardinality(block_refs_rx[i].keys),
                              search_tree_ref |-> RootHandle(i)])
    /\ [](pc \in {"startup", "loop"} =>
             /\ blocks_total < Len(block_refs_rx)
             /\ NextItem.type = "NoMoreBlocks"
             /\ \A i \in 1..blocks_total : block_refs_rx[i].type # "DeserializeBlock")
    /\ [][pc = "scan" /\ blocks_total < Len(block_refs_rx)
              /\ NextItem.type \in {"InvalidBlockMagic", "Leaf"} =>
                  /\ pc' = "scan"
                  /\ blocks_total' = blocks_total + 1
                  /\ UNCHANGED <<search_trees, search_tree_refs, trees>>]_vars
    /\ [][pc = "scan" /\ blocks_total < Len(block_refs_rx)
              /\ NextItem.type = "DeserializeBlock" => pc' = "failed"]_vars
    /\ [][pc = "scan" /\ blocks_total = Len(block_refs_rx) => pc' = "failed"]_vars
    /\ [][pc = "failed" => UNCHANGED vars]_vars

\* load has ended at NoMoreBlocks behind a block of another magic, a leaf and
\* a root: one tree is in the set
C27_Witness ==
    /\ pc = "startup"
    /\ blocks_total = 3
    /\ {block_refs_rx[i].type : i \in 1..blocks_total} = {"InvalidBlockMagic", "Leaf", "Root"}
    /\ Cardinality(search_trees) = 1
    /\ Len(search_tree_refs) = 1


\* ------------------------------------------- replies to callers that are gone

\* the step is the one that finds the flush finished and answers it
FlushedSent == flushed_sent' = flushed_sent + 1

\* the foreground tasks the step takes off `tasks`
TakenTasks == {t \in BagToSet(tasks) : CopiesIn(t, tasks') < CopiesIn(t, tasks)}

\* the Info replies the loop handles in the step (a task that fails changes
\* in `tasks` too, but its result has not come to the loop: tasks_count stays)
InfoReplyHandled == {t \in InfoReplyTaken : tasks_count' = tasks_count - 1}

\* the caller's record is what it was: nothing came through to it
Undisturbed(c) == clients[c].pc = "dropped" => clients' = clients

\* C28: the three sends the loop makes itself do what they do to the loop for
\* a caller that is gone as for a live one, and deliver nothing to one that is
\* gone.  The last Info reply taken removes the entry; a LookupRange accepted
\* pushes its LookupRangeButcher; a flush found finished puts the mode back to
\* Regular; in each of the three the loop goes on, no table other than the
\* one named changes and no task is taken off but the result handled
C28_DroppedReceiverIgnored ==
    /\ [][\A t \in InfoReplyHandled :
              info_requests[t.request_ref].pending_count = 1 =>
                  /\ t.request_ref \notin DOMAIN info_requests'
                  /\ Undisturbed(info_requests[t.request_ref].reply_tx)
                  /\ pc' = "loop"
                  /\ TakenTasks = {t}
                  /\ CopiesIn(t, tasks') = CopiesIn(t, tasks) - 1
                  /\ UNCHANGED <<lookup_requests, lookup_range_requests, flush_requests,
                                 bg_tasks, current_mode, search_trees>>]_vars
    /\ [][LookupRangeAccepted =>
              /\ Cardinality(PushedTasks) = 1
              /\ \A u \in PushedTasks :
                    /\ u.kind = "LookupRangeButcher"
                    /\ u.stage = "sent"
                    /\ u.client = Head(request_queue).client
              /\ Undisturbed(Head(request_queue).client)
              /\ pc' = "loop"
              /\ TakenTasks = {}
              /\ UNCHANGED <<info_requests, lookup_requests, lookup_range_requests,
                             flush_requests, bg_tasks, search_trees>>]_vars
    /\ [][FlushedSent =>
              /\ current_mode.name = "Flushing"
              /\ current_mode' = [name |-> "Regular", done_reply_tx |-> 0]
              /\ Undisturbed(current_mode.done_reply_tx)
              /\ pc' = "loop"
              /\ UNCHANGED <<info_requests, lookup_requests, lookup_range_requests,
                             flush_requests, tasks, bg_tasks, search_trees>>]_vars

\* the caller of a flush went away before the flush was answered, the caller
\* of a range scan before the scan was accepted: the mode is Regular again, the
\* Flushed was sent to no one, and the butcher is asked for the scan's range
C28_Witness ==
    \E c, d \in Clients :
        /\ clients[c].pc = "dropped"
        /\ clients[c].op = "flush"
        /\ flushed_sent = 1
        /\ current_mode.name = "Regular"
        /\ clients[d].pc = "dropped"
        /\ clients[d].op = "lookup_range"
        /\ \E t \in BagToSet(tasks) : t.kind = "LookupRangeButcher" /\ t.client = d
        /\ pc = "loop"


\* ------------------------------------------------ merger: markers and stream ends

\* a stream without its BlockFinish markers
StripBlockFinish(rx) == SelectSeq(rx, LAMBDA m : m.type # "BlockFinish")

\* what up to n calls return, from the given state of the merger on, up to and
\* with the first result that is not an item
RECURSIVE Returns(_, _, _)
Returns(its, head, n) ==
    IF n = 0
    THEN <<>>
    ELSE LET r == NextWithDeprecated(its, head) IN
         IF r.result = "Some"
         THEN <<[result |-> "Some", item |-> r.item]>>
                  \o Returns(r.iters, r.advance_head_idx, n - 1)
         ELSE <<[result |-> r.result, item |-> NoItem]>>

\* what a merger made over the given streams returns
ReturnsOver(streams) ==
    Returns([s \in DOMAIN streams |-> KeyValuesIterNew(streams[s])], 0, MaxItems + 1)

\* what a stream still has to offer: its front item, then the items queued
Pend(it) ==
    (IF it.iter_state = "FrontItem" THEN <<it.front>> ELSE <<>>)
        \o [i \in DOMAIN SelectSeq(it.key_values_rx, LAMBDA m : m.type = "Item") |->
               SelectSeq(it.key_values_rx, LAMBDA m : m.type = "Item")[i].item]

AllPend(its) == UNION {Range(Pend(its[i])) : i \in DOMAIN its}

\* the slots whose stream has nothing left but NoMore
AtNoMore(its) ==
    {i \in DOMAIN its : /\ its[i].iter_state = "NotReady"
                        /\ RecvSkipBlockFinish(its[i].key_values_rx).type = "NoMore"}

\* a call that is entered properly and is not an error
GoodCall ==
    /\ merger_pc = "ready"
    /\ merger_pc' = "ready"
    /\ advance_head_idx = 0
    /\ merger_last'.result # "Err"

IsSuffix(a, b) == Len(a) <= Len(b) /\ a = SubSeq(b, Len(b) - Len(a) + 1, Len(b))

\* C29: the sequence of results is the same with the BlockFinish markers as
\* without them, and the calls made return a prefix of it; a good call removes
\* from the vector exactly the streams that have nothing left but NoMore, and
\* of the others no pending item is lost: what is pending afterwards is what
\* was pending before less the item returned and the items passed over for it,
\* every stream kept still holds the tail of its own items in their order, and
\* a front item not consumed is still the front item of a stream with the same
\* queue behind it; the call returns None exactly when every stream of the
\* vector has nothing left but NoMore, the vector is empty then, and stays
\* empty with None returned by every call after
C29_MarkersSkippedStreamsRemoved ==
    /\ [](ReturnsOver(merger_inputs)
              = ReturnsOver([s \in DOMAIN merger_inputs |->
                                StripBlockFinish(merger_inputs[s])]))
    /\ [](LET returned == ReturnsOver(merger_inputs) IN
          \A i \in DOMAIN merger_out :
              /\ i <= Len(returned)
              /\ returned[i] = [result |-> "Some", item |-> merger_out[i]])
    /\ [][GoodCall =>
              /\ Len(iters') = Len(iters) - Cardinality(AtNoMore(iters))
              /\ \A i \in AtNoMore(iters) : Pend(iters[i]) = <<>>
              /\ AllPend(iters') =
                     AllPend(iters) \ ({merger_last'.item} \cup Range(merger_last'.deprecated))
              /\ \A j \in DOMAIN iters' :
                     \E i \in DOMAIN iters \ AtNoMore(iters) :
                         /\ IsSuffix(Pend(iters'[j]), Pend(iters[i]))
                         /\ Len(Pend(iters'[j])) >= Len(Pend(iters[i])) - 1
              /\ \A i \in DOMAIN iters :
                     /\ iters[i].iter_state = "FrontItem"
                     /\ iters[i].front # merger_last'.item
                     /\ iters[i].front \notin Range(merger_last'.deprecated)
                     => \E j \in DOMAIN iters' :
                            /\ iters'[j].iter_state = "FrontItem"
                            /\ iters'[j].front = iters[i].front
                            /\ iters'[j].key_values_rx = iters[i].key_values_rx]_vars
    /\ [][GoodCall =>
              /\ merger_last'.result = "None" <=> AtNoMore(iters) = DOMAIN iters
              /\ merger_last'.result = "None" => iters' = <<>>]_vars
    /\ [][merger_last.result = "None" =>
              merger_last'.result = "None" /\ iters' = <<>>]_vars
    /\ [](merger_last.result = "None" => iters = <<>> /\ AtNoMore(iters) = DOMAIN iters)

\* the first stream had no item: its slot was given to the last stream by the
\* removal, the streams carry BlockFinish markers, an item was returned and a
\* front item is waiting in the vector
C29_Witness ==
    /\ merger_inputs[1] = <<MsgNoMore>>
    /\ \E s \in DOMAIN merger_inputs :
          \E j \in DOMAIN merger_inputs[s] : merger_inputs[s][j].type = "BlockFinish"
    /\ merger_last.result = "Some"
    /\ Len(iters) = 2
    /\ PendingItem(iters[1]).src = MaxIters
    /\ \E i \in DOMAIN iters : iters[i].iter_state = "FrontItem"


\* ------------------------------------------------------------ flush liveness

\* C30: a FlushAll accepted and not yet answered is what the Flushing mode
\* stands for; the mode is left only with no task outstanding and with Flushed
\* delivered to the caller of that FlushAll; and, the loop and its
\* collaborators being scheduled fairly, the Flushing mode is always left for
\* Regular in the end: neither the merges that follow one another nor the
\* lookups and range scans started again while Flushing keep tasks outstanding
\* forever
C30_FlushEventuallyAnswered ==
    /\ [](flush_accepted =
              flushed_sent + (IF current_mode.name = "Flushing" THEN 1 ELSE 0))
    /\ [][current_mode.name = "Flushing" /\ current_mode'.name = "Regular" =>
              /\ tasks_count + bg_tasks_count = 0
              /\ flushed_sent' = flushed_sent + 1
              /\ clients'[current_mode.done_reply_tx].pc = "idle"
              /\ clients'[current_mode.done_reply_tx].reply.cell = "Flushed"]_vars
    /\ (current_mode.name = "Flushing") ~> (current_mode.name = "Regular")

\* while Flushing a range scan has come back deprecated and is about to be
\* started again, and a merge scheduled after a tree was merged away is running
C30_Witness ==
    /\ current_mode.name = "Flushing"
    /\ merge_search_trees_tasks_count > 0
    /\ Cardinality(search_trees) < MaxTrees
    /\ \E t \in BagToSet(bg_tasks) :
          BgTaskReady(t, "MergeLookupRange") /\ t.outcome = "DeprecatedResults"


\* ---------------------------------------------------- the trees left by a flush

\* C31: at the step that sends Flushed, every tree of the tree set has had its
\* FlushSearchTree done, or is a Regular tree (made by a merge or found by the
\* startup scan), or was attached by a ButcherFlush handled after the FlushButcher
\* ack of this very flush; only trees attached from a cache are ever of the last
\* sort, and Regular trees come from merges and from the startup scan only
C31_TreesOfTheAckAreFlushed ==
    /\ [][FlushedSent =>
              \A t \in search_trees :
                  \/ trees[t].flushed
                  \/ trees[t].mode = "Regular"
                  \/ trees[t].late_for = flush_accepted]_vars
    /\ [](\A t \in DOMAIN trees :
              /\ trees[t].late_for # 0 =>
                    /\ trees[t].mode = "CacheBootstrap"
                    /\ trees[t].late_for <= flush_accepted
              /\ trees[t].mode = "Regular" <=> trees[t].origin \in {"merge", "load"})

\* (original statement of C31) at the step that sends Flushed no tree attached
\* from a cache is in the tree set without its FlushSearchTree done
C31_NoUnflushedTreeAtFlushed ==
    [][FlushedSent =>
           \A t \in search_trees :
               \/ trees[t].flushed
               \/ trees[t].mode = "Regular" /\ trees[t].origin \in {"merge", "load"}]_vars

\* Flushed has been sent to its caller, and the tree that a write still in
\* flight made the butcher hand over after the FlushButcher ack is in the tree
\* set unflushed
C31_Witness ==
    /\ current_mode.name = "Regular"
    /\ flushed_sent = 1
    /\ \E c \in Clients : /\ clients[c].op = "flush"
                          /\ clients[c].pc = "idle"
                          /\ clients[c].reply.cell = "Flushed"
    /\ \E b \in search_trees :
          /\ trees[b].mode = "CacheBootstrap"
          /\ ~trees[b].flushed
          /\ trees[b].late_for = 1


\* ----------------------------------------------------- the reply of a lookup

\* who holds the reply sender of client c's lookup: the LookupRequest entries
\* with it, and the RetrieveValue tasks with it that have not sent the reply
ReplySenderOwners(c) ==
    Cardinality({r \in DOMAIN lookup_requests : lookup_requests[r].reply_tx = c})
    + BagCardinality([t \in {u \in BagToSet(tasks) :
                                 /\ u.kind = "RetrieveValue"
                                 /\ u.client = c
                                 /\ ~(u.stage = "done" /\ u.outcome = "RetrieveSuccess")}
                      |-> CopiesIn(t, tasks)])

\* client c's lookup has been taken off the request channel and is not answered
LookupAccepted(c) ==
    /\ clients[c].pc = "wait"
    /\ clients[c].op = "lookup"
    /\ \A i \in DOMAIN request_queue : request_queue[i].client # c

\* C32: the reply sender of an accepted lookup has exactly one owner, a
\* LookupRequest entry or a RetrieveValue task, and there is none for a client
\* with no accepted lookup; the caller of a lookup is answered only by the
\* step in which the RetrieveValue that owns the sender sends its candidate, and
\* the sender has no owner after it; and, the loop and its collaborators being
\* scheduled fairly, every accepted lookup is answered
C32_LookupRepliedOnce ==
    /\ [](\A c \in Clients :
              ReplySenderOwners(c) = IF LookupAccepted(c) THEN 1 ELSE 0)
    /\ [][\A c \in Clients :
              /\ clients[c].pc = "wait"
              /\ clients[c].op = "lookup"
              /\ clients'[c].pc # "wait"
              => /\ LookupAccepted(c)
                 /\ clients'[c].pc = "idle"
                 /\ ReplySenderOwners(c)' = 0
                 /\ \E t \in BagToSet(tasks) :
                       /\ t.kind = "RetrieveValue"
                       /\ t.stage = "sent"
                       /\ t.client = c
                       /\ t.key = clients[c].key
                       /\ clients'[c].reply = [version |-> t.found.version,
                                               cell |-> t.found.cell]
                       /\ CopiesIn(t, tasks') < CopiesIn(t, tasks)]_vars
    /\ \A c \in Clients : LookupAccepted(c) ~> (clients[c].pc = "idle")

\* the RetrieveValue of a lookup has come back with DeprecatedResults while the
\* store is Flushing: it holds the reply sender, the lookup is to be launched again
C32_Witness ==
    \E t \in BagToSet(tasks) :
        /\ t.kind = "RetrieveValue"
        /\ t.stage = "done"
        /\ t.outcome = "DeprecatedResults"
        /\ current_mode.name = "Flushing"
        /\ LookupAccepted(t.client)
        /\ ReplySenderOwners(t.client) = 1
        /\ lookup_requests = <<>>


\* ------------------------------------------------- the sources of the merges

\* the MergeSearchTrees tasks whose result the loop has not taken
MergesInFlight == {t \in BagToSet(bg_tasks) : t.kind = "MergeSearchTrees"}

\* the trees that are a source of a merge in flight
MergeSources == UNION {{t.tree, t.tree_b} : t \in MergesInFlight}

\* the trees a DemolishSearchTree is out for
BeingDemolished == {t.tree : t \in {u \in BagToSet(tasks) : u.kind = "DemolishSearchTree"}}

\* C33: the merges in flight have two distinct sources each and no source in
\* common; every tree of the tree set is either waiting in the TreeSizeHeap or
\* a source of a merge in flight, never both, so a tree popped for a merge stays
\* in the set until the result of that merge is taken; the step that takes it
\* finds both sources in the set and removes them (no unwrap fails); a
\* DemolishSearchTree is pushed only for a tree that leaves the set in that very
\* step, once, and a tree that has left the set never comes back, so no tree is
\* demolished twice or while in the set
C33_MergeSourcesDisjoint ==
    /\ [](pc # "panicked")
    /\ [](\A t \in MergesInFlight :
              /\ t.tree # t.tree_b
              /\ CopiesIn(t, bg_tasks) = 1
              /\ \A u \in MergesInFlight :
                     u # t => {t.tree, t.tree_b} \cap {u.tree, u.tree_b} = {})
    /\ [](/\ search_trees = HeapRefs \cup MergeSources
          /\ HeapRefs \cap MergeSources = {}
          /\ Cardinality(MergesInFlight) = merge_search_trees_tasks_count)
    /\ [](/\ BeingDemolished \cap search_trees = {}
          /\ BeingDemolished \subseteq DOMAIN trees
          /\ \A u \in BagToSet(tasks) :
                 u.kind = "DemolishSearchTree" => CopiesIn(u, tasks) = 1)
    /\ [][\A t \in MergeDoneTaken :
              /\ {t.tree, t.tree_b} \subseteq search_trees
              /\ {t.tree, t.tree_b} \cap search_trees' = {}
              /\ {u.tree : u \in {v \in PushedTasks : v.kind = "DemolishSearchTree"}}
                     = {t.tree, t.tree_b}]_vars
    /\ [][/\ \A u \in PushedTasks :
                 u.kind = "DemolishSearchTree" /\ u.stage = "sent" =>
                     /\ u.tree \in search_trees \ search_trees'
                     /\ u.tree \notin BeingDemolished
                     /\ MergeDoneTaken # {}
          /\ search_trees \ search_trees' # {} => MergeDoneTaken # {}
          /\ \A s \in search_trees' \ search_trees : s \notin DOMAIN trees]_vars

\* two merges are in flight at once, over four trees of the tree set, while a
\* tree merged away earlier is being demolished
C33_Witness ==
    /\ Cardinality(MergesInFlight) = 2
    /\ Cardinality(MergeSources) = 4
    /\ MergeSources \subseteq search_trees
    /\ BeingDemolished # {}


\* ------------------------------------------------ the heap between two events

\* C34: whenever the loop waits for its next event no bucket of the
\* TreeSizeHeap holds two handles or more: a pop would be refused
C34_NoPoppablePairWhileWaiting ==
    pc = "loop" =>
        /\ EligibleBuckets(search_tree_refs) = {}
        /\ ~BinPop(search_tree_refs).some
        /\ \A i, j \in DOMAIN search_tree_refs :
               Bucket(search_tree_refs[i].items_count)
                   = Bucket(search_tree_refs[j].items_count) => i = j

\* the loop waits with two handles in the heap, in different buckets: that of a
\* tree a merge has produced and that of a tree attached from a cache
C34_Witness ==
    /\ pc = "loop"
    /\ \E i, j \in DOMAIN search_tree_refs :
          /\ trees[search_tree_refs[i].search_tree_ref].origin = "merge"
          /\ trees[search_tree_refs[j].search_tree_ref].origin = "flush"
    /\ merge_search_trees_tasks_count = 0


\* ------------------------------------------- completions and their entries

\* the task results that carry a request reference and wait to be handled
Completions == {t \in BagToSet(tasks) : t.stage = "done"
                   /\ t.kind \in InfoKinds \cup LookupKinds \cup LookupRangeKinds
                                    \cup FlushKinds}

\* the pending counter of the tracker entry a completion names, -1 when the
\* entry is not in its table
CounterFound(t) ==
    CASE t.kind \in InfoKinds ->
             IF t.request_ref \in DOMAIN info_requests
             THEN info_requests[t.request_ref].pending_count ELSE -1
      [] t.kind \in LookupKinds ->
             IF t.request_ref \in DOMAIN lookup_requests
             THEN lookup_requests[t.request_ref].pending_count ELSE -1
      [] t.kind \in LookupRangeKinds ->
             IF t.request_ref \in DOMAIN lookup_range_requests
             THEN lookup_range_requests[t.request_ref].pending_count ELSE -1
      [] OTHER ->
             IF t.request_ref \in DOMAIN flush_requests
             THEN flush_requests[t.request_ref].search_trees_pending_count ELSE -1

\* (original statement of C35) every completion that carries a request
\* reference, the FlushButcher one included, finds its entry with a counter
\* above zero
C35_EveryCompletionFindsPositiveCounter ==
    /\ pc # "panicked"
    /\ \A t \in Completions : CounterFound(t) > 0
    /\ \A t \in Completions :
          t.kind = "LookupButcher" =>
              lookup_requests[t.request_ref].butcher_status # "Done"

\* C35: no unwrap and no assertion of the Info, Lookup, LookupRange and Flush
\* completion handlers fails: every InfoButcher, InfoSearchTree, LookupButcher,
\* LookupSearchTree, LookupRangeSearchTree and FlushSearchTree completion finds
\* its tracker entry in the table with a counter above zero, a LookupButcher
\* completion finds butcher_status other than Done, a FlushSearchTree
\* completion finds butcher_done set, and a FlushButcher completion finds its
\* entry in the table with butcher_done unset and a counter of zero
C35_CompletionsFindTheirEntries ==
    /\ pc # "panicked"
    /\ \A t \in Completions :
          /\ CounterFound(t) >= 0
          /\ t.kind # "FlushButcher" => CounterFound(t) > 0
          /\ t.kind = "LookupButcher" =>
                 lookup_requests[t.request_ref].butcher_status # "Done"
          /\ t.kind = "FlushSearchTree" => flush_requests[t.request_ref].butcher_done
          /\ t.kind = "FlushButcher" =>
                 /\ ~flush_requests[t.request_ref].butcher_done
                 /\ CounterFound(t) = 0

\* the butcher's reply to a lookup waits to be handled after a tree's reply
\* to the same entry has been counted
C35_Witness ==
    \E t \in Completions :
        /\ t.kind = "LookupButcher"
        /\ lookup_requests[t.request_ref].butcher_status = "NotReady"
        /\ lookup_requests[t.request_ref].pending_count >= 1
        /\ lookup_requests[t.request_ref].pending_count
               <= Cardinality(search_trees)


\* --------------------------------------------------- the flush tracker table

\* the flush tasks of the loop, dispatched or completed and not yet handled
FlushTasks == {t \in BagToSet(tasks) : t.kind \in FlushKinds}

\* C36: the flush tracker table holds at most one FlushRequest and holds one
\* only while the mode is Flushing; every FlushButcher and FlushSearchTree task
\* is outstanding only in Flushing mode and names the entry of the table; an
\* entry is owed exactly one FlushButcher result while butcher_done is unset
\* and none once it is set; FlushSearchTree tasks exist only for an entry
\* whose butcher_done is set; and no assertion of the loop has failed
C36_OneFlushRequestOnlyWhileFlushing ==
    /\ pc # "panicked"
    /\ Cardinality(DOMAIN flush_requests) <= 1
    /\ flush_requests # <<>> => current_mode.name = "Flushing"
    /\ \A t \in FlushTasks :
          /\ current_mode.name = "Flushing"
          /\ t.request_ref \in DOMAIN flush_requests
          /\ CopiesIn(t, tasks) = 1
          /\ t.kind = "FlushSearchTree" => flush_requests[t.request_ref].butcher_done
          /\ t.kind = "FlushButcher" => ~flush_requests[t.request_ref].butcher_done
    /\ \A r \in DOMAIN flush_requests :
          Owed({"FlushButcher"}, r) = IF flush_requests[r].butcher_done THEN 0 ELSE 1

\* a second FlushAll waits in the request queue while the entry of the first
\* has its butcher flushed and a FlushSearchTree completion waits to be handled
C36_Witness ==
    /\ current_mode.name = "Flushing"
    /\ \E i \in DOMAIN request_queue : request_queue[i].kind = "flush"
    /\ \E t \in FlushTasks :
          /\ t.kind = "FlushSearchTree"
          /\ t.stage = "done"
          /\ flush_requests[t.request_ref].butcher_done


\* ------------------------------------------------------ merger: conservation

\* the items the last call handed out: its winner and what it passed to the
\* deprecated callback, in the order of the hand-over
HandedOut(last) ==
    (IF last.result = "Some" THEN <<last.item>> ELSE <<>>) \o last.deprecated

\* C37: every item of the input streams is pending in the merger (a front item
\* or still queued) until a call hands it out; a call that returns Ok hands out
\* distinct items, each as the winner or to the deprecated callback, each
\* pending before the call and with the minimum key of the front items, and
\* takes exactly these out of what is pending; no call puts an item back, so
\* none is handed out twice and none is dropped; an item returned is never
\* given to the callback as well
C37_ItemsHandedOutOnce ==
    /\ [](merger_last = NoCall => AllPend(iters) = InputItems)
    /\ [][GoodCall =>
              LET handed == HandedOut(merger_last') IN
              /\ Cardinality(Range(handed)) = Len(handed)
              /\ Range(handed) \subseteq AllPend(iters)
              /\ Range(handed) \subseteq FrontGroup
              /\ AllPend(iters') = AllPend(iters) \ Range(handed)
              /\ \A i \in DOMAIN iters' :
                     Cardinality(Range(Pend(iters'[i]))) = Len(Pend(iters'[i]))]_vars
    /\ [][AllPend(iters') \subseteq AllPend(iters)]_vars
    /\ [](/\ Range(merger_out) \cap AllPend(iters) = {}
          /\ Cardinality(Range(merger_out)) = Len(merger_out)
          /\ Range(merger_last.deprecated) \cap AllPend(iters) = {}
          /\ Range(merger_last.deprecated) \cap Range(merger_out) = {})
    /\ [](merger_last.result = "None" => AllPend(iters) = {})

\* two calls have returned an item each; the item of the second waited as a
\* front item or in its queue while the first was returned from another stream,
\* and the second call passed a loser to the callback
C37_Witness ==
    /\ Len(merger_out) = 2
    /\ merger_last.result = "Some"
    /\ merger_last.deprecated # <<>>
    /\ merger_out[1].src # merger_last.item.src
    /\ AllPend(iters) = {}


\* ------------------------------------------------ cache iteration: properties

\* the keys of the cache's entries that lie in the requested range
KeysInRange == {k \in DOMAIN iter_cache : iter_cache[k].version # 0 /\ InBounds(k, iter_range)}

\* the Item messages the task owes: one per entry in range, by ascending key
RECURSIVE ItemsOwedFrom(_)
ItemsOwedFrom(keys) ==
    IF keys = {}
    THEN <<>>
    ELSE LET k == CHOOSE x \in keys : \A y \in keys : x <= y IN
         <<[type |-> "Item",
            item |-> [key |-> k, version |-> iter_cache[k].version,
                      cell |-> iter_cache[k].cell]]>>
             \o ItemsOwedFrom(keys \ {k})

ItemsOwed == ItemsOwedFrom(KeysInRange)

\* C38: what the task has sent is at every moment the first part of the Item
\* messages of the cache's entries in range, one per entry in ascending key
\* order, and what it has left to send is the rest; the sender is handed to
\* repay_iter_items_tx at most once and only when all of them were sent, and a
\* task that ends with its receiver still there has sent all and handed the
\* sender back; a send that finds the receiver gone ends the task with
\* Ok(Done), the sender not handed back; the only error of the task is
\* ThreadPoolGone, with nothing sent
C38_CacheItemsSentThenSenderRepaid ==
    /\ [](iter_pc \in {"send", "done"} /\ iter_result # "ThreadPoolGone" =>
              iter_items_tx \o [i \in DOMAIN iter_items |-> ItemOf(iter_items[i])]
                  = ItemsOwed)
    /\ [](/\ Len(iter_items_tx) <= Len(ItemsOwed)
          /\ iter_items_tx = SubSeq(ItemsOwed, 1, Len(iter_items_tx))
          /\ \A i, j \in DOMAIN iter_items_tx :
                 i < j => iter_items_tx[i].item.key < iter_items_tx[j].item.key)
    /\ [](/\ iter_repaid <= 1
          /\ iter_repaid = 1 =>
                 iter_items_tx = ItemsOwed /\ iter_pc = "done" /\ iter_result = "Ok")
    /\ [](iter_pc = "done" /\ iter_result = "Ok" /\ iter_items_rx = "alive" =>
              iter_items_tx = ItemsOwed /\ iter_repaid = 1)
    /\ [](iter_pc = "done" /\ iter_result = "Ok" /\ iter_repaid = 0 =>
              iter_items_rx = "dropped" /\ iter_items_tx # ItemsOwed)
    /\ [][iter_pc = "send" /\ iter_items # <<>> /\ iter_items_rx = "dropped" =>
              /\ iter_pc' = "done"
              /\ iter_result' = "Ok"
              /\ UNCHANGED <<iter_repaid, iter_items_tx>>]_vars
    /\ [](iter_result = "ThreadPoolGone" => iter_items_tx = <<>> /\ iter_repaid = 0)
    /\ [][iter_pc = "done" => UNCHANGED iter_cache_vars]_vars

\* the receiver went away after the first of two entries in range was sent:
\* the task has ended with Ok(Done) and the sender was not handed back, and the
\* cache holds an entry outside the range that was not sent
C38_Witness ==
    /\ iter_pc = "done"
    /\ iter_result = "Ok"
    /\ iter_repaid = 0
    /\ iter_items_rx = "dropped"
    /\ Len(iter_items_tx) = 1
    /\ Len(ItemsOwed) = 2
    /\ Cardinality(CacheKeys(iter_cache)) = 3


\* ------------------------------------------------------------ task counters

\* C39: tasks_count is the number of foreground tasks pushed whose completion
\* the loop has not taken, bg_tasks_count the number of background tasks
\* spawned whose result it has not received; neither is below zero; the select
\* polls the foreground task set only when tasks_count is above zero, and the
\* set is not empty then, so its stream never yields None; and no unreachable
\* branch or assertion of the loop is hit
C39_CountersAreOutstandingTasks ==
    /\ tasks_count = BagCardinality(tasks)
    /\ bg_tasks_count = BagCardinality(bg_tasks)
    /\ tasks_count >= 0
    /\ bg_tasks_count >= 0
    /\ pc = "loop" /\ "tasks" \in PolledSources =>
           tasks_count > 0 /\ tasks # EmptyBag
    /\ pc # "panicked"

\* while the loop is flushing, two foreground tasks or more are outstanding
\* next to a background task, and a completion waits in the polled task set
C39_Witness ==
    /\ pc = "loop"
    /\ current_mode.name = "Flushing"
    /\ tasks_count >= 2
    /\ bg_tasks_count >= 1
    /\ "tasks" \in PolledSources
    /\ \E t \in BagToSet(tasks) : t.stage = "done"


\* ------------------------------------------- merger: the advance list head

\* C40: advance_head_idx is None whenever a call of next_with_deprecated has
\* returned, with Ok or with Err(BackendIterPeerLost), and so the assertion at
\* the entry of a call never fails, whatever calls were made before
C40_AdvanceHeadNoneBetweenCalls ==
    /\ advance_head_idx = 0
    /\ merger_pc # "panicked"

====
